---- MODULE Spec2Model ----
(***************************************************************************)
(* The hiveminer pipeline orchestrator (internal/orchestrator) and its     *)
(* session manifest store (internal/session) as a state machine.           *)
(*                                                                         *)
(* One driver task executes Run / runPipeline / rankEntries, W worker      *)
(* goroutines execute the worker body, one goroutine is the periodic       *)
(* saver.  Every section of the code that runs under the manifest mutex is *)
(* one atomic step; a call to a collaborator (discoverer, evaluator,       *)
(* extractor, ranker) is a step whose outcome is chosen among the results  *)
(* the collaborator's interface allows.                                    *)
(***************************************************************************)
EXTENDS Integers, Sequences, FiniteSets, TLC

(* ------------------------------ bounds --------------------------------- *)

\* Largest config.Limit (L) of the resumable sessions explored.
MaxLimit == 1
\* config.Limit of the single fresh run with a large target.
LargeLimit == 2
\* Largest config.Workers explored.
MaxWorkers == 2
\* Capacity of workCh.  The code uses 200 with at most 50 workers; the model
\* scales the channel down and keeps it at least as large as the worker pool.
WorkChCap == 2
\* Invocations of Run explored per behaviour.
MaxRuns == 2
\* Wall-clock seconds (time.Now() truncated to the second): 0..MaxClock.
MaxClock == 1
\* Largest number of entries the extractor returns for one thread.
MaxEntries == 1

(* -------------------------- program constants -------------------------- *)

maxRounds == 3
OverprovisionFactor == 3
DefaultWorkers == 10
WorkerCap == 50

(* ------------------------------ values --------------------------------- *)

\* Post ids: a search finds at most the posts the overprovision target asks
\* for (see DiscoveryResults).
PostIDs == 1..(OverprovisionFactor * LargeLimit)
\* LoadManifest's nil: no manifest.json in the directory.
NoManifest == <<>>
NoItem == [id |-> 0, needsEval |-> FALSE]
NoResult == [dir |-> "", err |-> "none"]
ErrCanceled == "context canceled"
ErrTransport == "transport failure"
\* config.Query of every invocation (the same form and query are re-run).
Query == "family vacation"

Min(a, b) == IF a < b THEN a ELSE b

(* --------------------------- session package --------------------------- *)

\* types.ThreadState for a discovered post: post id, status, the number of
\* its entries, the number of those that carry a rank_score, and the error.
NewThreadState(postID) ==
    [id |-> postID, status |-> "pending", entries |-> 0, scored |-> 0,
     error |-> ""]

NewManifest ==
    [threads |-> <<>>, runs |-> <<>>, discovered |-> FALSE]

\* Index of the first thread with this post id, 0 when there is none
\* (the code returns -1).
FindThreadIndex(m, postID) ==
    IF \E i \in 1..Len(m.threads) : m.threads[i].id = postID
    THEN CHOOSE i \in 1..Len(m.threads) :
            /\ m.threads[i].id = postID
            /\ \A j \in 1..(i - 1) : m.threads[j].id # postID
    ELSE 0

\* TRUE when FindThread returns a non-nil pointer.
FindThread(m, postID) == FindThreadIndex(m, postID) # 0

AddThread(m, thread) ==
    [m EXCEPT !.threads = Append(@, thread)]

UpdateThreadStatus(m, postID, status) ==
    LET i == FindThreadIndex(m, postID) IN
    IF i = 0 THEN m ELSE [m EXCEPT !.threads[i].status = status]

UpdateThreadEntries(m, postID, entries) ==
    LET i == FindThreadIndex(m, postID) IN
    IF i = 0 THEN m
    ELSE [m EXCEPT !.threads[i].entries = entries,
                   !.threads[i].scored = 0,
                   !.threads[i].status = "extracted"]

UpdateThreadRanked(m, postID) ==
    LET i == FindThreadIndex(m, postID) IN
    IF i = 0 THEN m ELSE [m EXCEPT !.threads[i].status = "ranked"]

CountByStatus(m, status) ==
    Cardinality({i \in 1..Len(m.threads) : m.threads[i].status = status})

GetCollectedThreads(m) ==
    SelectSeq(m.threads, LAMBDA t : t.status = "collected")

StartRun(m) ==
    [m EXCEPT !.runs = Append(@, "running")]

CompleteRun(m, status) ==
    IF Len(m.runs) = 0 THEN m
    ELSE [m EXCEPT !.runs[Len(m.runs)] = status]

\* The slug of a session directory: the query's words and the wall-clock
\* second of the call (time.Now().Format("20060102-150405")).
GenerateSlugFromQuery(query, now) == <<query, now>>

\* manifest.json of directory dir as the disk value after SaveManifest.
SaveManifest(dir, m) == [dir |-> dir, file |-> <<m>>]

(* ------------------------------- state --------------------------------- *)

VARIABLES
    cfg,          \* RunConfig: Limit, Workers, evaluator/ranker configured
    clock,        \* wall-clock second
    disk,         \* newest session directory: its name and manifest.json
    invocations,  \* number of calls of Run so far
    runsAllowed,  \* number of calls of Run the operator makes at most
    pc,           \* position of the driver task (Run / runPipeline)
    sessionDir,   \* Run's sessionDir
    manifest,     \* the in-memory manifest
    cancelled,    \* ctx.Err() != nil
    cancelAt,     \* history: phase of Run in which the context was cancelled
    result,       \* what Run returned
    pipeErr,      \* error returned by runPipeline
    wpc,          \* position of each worker goroutine
    witem,        \* work item each worker holds
    workCh,       \* buffered work channel
    chClosed,     \* close(workCh) was called
    fed,          \* post ids fed to the channel in this run
    feedQ,        \* items the driver still has to push (collected / newItems)
    totalFed,     \* atomic counter
    done,         \* atomic counter
    extractedCnt, \* atomic counter "extracted"
    processed,    \* processed (under mu)
    round,        \* discovery round
    remaining,    \* overprovisionTarget - actionable of the round
    posts,        \* the batch findThreads returned in this round
    roundTarget,  \* totalFed.Load() at the start of the round's wait
    waitExit,     \* which test ended the round's wait loop
    dirty,        \* the saver's dirty flag
    saver,        \* periodic saver goroutine: "off", "on", "stop", "done"
    pushes,       \* history: how often each post id was sent in this run
    discoveries,  \* history: calls of findThreads in this run
    startStatus,  \* history: the status of each post when Run loaded the manifest
    files,        \* manifest.json and manifest.json.tmp as written byte by byte
    savePc,       \* position inside a SaveManifest call
    saveBy,       \* the task that is inside SaveManifest
    saveData,     \* the bytes json.MarshalIndent returned to that call
    saveErrs,     \* history: errors SaveManifest returned to the saver
    rankPc,       \* position inside rankEntries / RankEntries
    inputs,       \* the RankInputs of the call
    sortTies,     \* how this build's sort.Slice orders equal keys
    outputs,      \* the RankOutputs of the algorithmic stages
    assessments,  \* the model's parsed response, if the assessment succeeded
    ranked,       \* what RankEntries returned
    written,      \* rank_score, rank_flags, rank_reason of the manifest entries
    runLog,       \* status of the run's RunLog
    itemPc,       \* position of a worker inside the body for one work item
    item,         \* that work item: post id, permalink, needsEval
    form,         \* ids of the fields of config.Form
    threadFile,   \* thread_<postid>.json of the item
    evalFile,     \* eval_<postid>.json of the item
    attempt,      \* EvaluateThread's loop variable
    agentRuns,    \* history: calls of runner.Run by EvaluateThread
    lastErr,      \* EvaluateThread's lastErr
    evalResult,   \* what EvaluateThread returned
    payload,      \* the thread handed to the extractor
    extractorCalls, \* history: calls of the extractor for the item
    subPc,        \* position of Run around Phase 0
    subConfig,    \* config.Subreddits of the call, as Run changes it
    subExplicit,  \* history: config.Subreddits as the caller supplied it
    subManifest,  \* Subreddits and DiscoveredSubreddits of the manifest
    subDisk,      \* the same fields of manifest.json
    subCalls,     \* history: calls of DiscoverSubreddits in this run
    subOutcome,   \* history: what the discoverer returned, run by run
    subSearch,    \* history: the communities the pipeline searched
    subErr,       \* the error Run returned
    subRuns,      \* number of calls of Run on the session
    mu,           \* the task that holds runPipeline's mutex mu, or "free"
    task          \* each task's place around its accesses of the manifest

vars == <<cfg, clock, disk, invocations, runsAllowed, pc, sessionDir, manifest, cancelled,
          cancelAt, result, pipeErr, wpc, witem, workCh, chClosed, fed, feedQ,
          totalFed, done, extractedCnt, processed, round, remaining, posts,
          roundTarget, waitExit, dirty, saver, pushes, discoveries, startStatus,
          files, savePc, saveBy, saveData, saveErrs,
          rankPc, inputs, sortTies, outputs, assessments, ranked, written, runLog,
          itemPc, item, form, threadFile, evalFile, attempt, agentRuns, lastErr,
          evalResult, payload, extractorCalls,
          subPc, subConfig, subExplicit, subManifest, subDisk, subCalls,
          subOutcome, subSearch, subErr, subRuns, mu, task>>

Workers == 1..MaxWorkers

\* workers := config.Workers, defaulted and capped.
ClampWorkers(w) ==
    IF w <= 0 THEN DefaultWorkers ELSE IF w > WorkerCap THEN WorkerCap ELSE w

Pool == 1..ClampWorkers(cfg.Workers)

\* The inputs of Run: RunConfig's Limit and Workers, and whether the
\* orchestrator was given its agents (the command line sets them all, a bare
\* orchestrator has neither evaluator nor ranker and is run with one worker).
Configs ==
    {c \in [Limit : 1..MaxLimit, Workers : 1..MaxWorkers,
            evaluator : BOOLEAN, ranker : BOOLEAN] :
        c.evaluator = c.ranker /\ (c.Workers > 1 => c.evaluator)}

\* How often the operator invokes Run: sessions are resumed with one
\* worker, the larger pools are explored for one run.
RunsFor(c) == IF c.Workers = 1 THEN MaxRuns ELSE 1

LargeConfigs ==
    [Limit : {LargeLimit}, Workers : {1}, evaluator : {TRUE}, ranker : {TRUE}]

\* A file: whether it exists, and its bytes (a sequence of tokens).
NoFile == [exists |-> FALSE, bytes |-> <<>>]

\* No SaveManifest call is in progress and the directory is empty.
SaveReset ==
    /\ files = [canon |-> NoFile, tmp |-> NoFile]
    /\ savePc = "idle"
    /\ saveBy = "none"
    /\ saveData = <<>>
    /\ saveErrs = 0

\* No parsed response of the model: none yet, or the assessment failed.
NoResponse == [ok |-> FALSE, list |-> <<>>]

\* An entry without rank fields: rank_score is null.
NoRank == [hasScore |-> FALSE, score |-> 0, flags |-> <<>>, reason |-> <<>>]

\* No ranking is in progress.
RankReset ==
    /\ rankPc = "off"
    /\ inputs = <<>>
    /\ sortTies = "first"
    /\ outputs = <<>>
    /\ assessments = NoResponse
    /\ ranked = <<>>
    /\ written = <<>>
    /\ runLog = "none"

\* A thread payload: whether the bytes parse as JSON, Post.ID (0 is the empty
\* string) and whether Post.Permalink is non-empty.
NoPayload == [parses |-> FALSE, id |-> 0, permalink |-> FALSE]

\* A file that does not exist.
NoThreadFile == [exists |-> FALSE, data |-> NoPayload]
NoEvalFile ==
    [exists |-> FALSE, by |-> 0, parses |-> FALSE, verdict |-> "", saved |-> FALSE]

\* A nil error of EvaluateThread; its errors name the step that failed and
\* the attempt ("... (attempt %d/%d)").
NoErr == [msg |-> "", attempt |-> 0]

\* EvaluateThread has not returned.
NoEval ==
    [returned |-> FALSE, err |-> NoErr, verdict |-> "", by |-> 0, threadSaved |-> FALSE]

\* No worker is looking at a single item.
ItemReset ==
    /\ itemPc = "off"
    /\ item = [id |-> 0, permalink |-> FALSE, needsEval |-> FALSE]
    /\ form = <<>>
    /\ threadFile = NoThreadFile
    /\ evalFile = NoEvalFile
    /\ attempt = 0
    /\ agentRuns = 0
    /\ lastErr = NoErr
    /\ evalResult = NoEval
    /\ payload = NoPayload
    /\ extractorCalls = 0

\* The subreddit fields of a manifest: those of no manifest (nil, or no
\* manifest.json).
NoSubManifest == [exists |-> FALSE, subreddits |-> <<>>, discovered |-> FALSE]

\* Run is not followed through Phase 0.
SubReset ==
    /\ subPc = "off"
    /\ subConfig = <<>>
    /\ subExplicit = <<>>
    /\ subManifest = NoSubManifest
    /\ subDisk = NoSubManifest
    /\ subCalls = 0
    /\ subOutcome = <<>>
    /\ subSearch = <<>>
    /\ subErr = "none"
    /\ subRuns = 0

\* The tasks of a run: the driver (Run and runPipeline), the worker
\* goroutines and the periodic saver goroutine.
Tasks == {"driver", "w1", "w2", "saver"}

\* A task that is not inside a section of code that touches the manifest.
Outside(pos) == [pos |-> pos, site |-> "", step |-> "out"]

\* Run is not followed access by access.
MuReset ==
    /\ mu = "free"
    /\ task = [t \in Tasks |-> Outside("none")]

\* Memory of a process that is not executing Run.
ProcessReset ==
    /\ manifest = NewManifest
    /\ sessionDir = <<>>
    /\ cancelled = FALSE
    /\ cancelAt = "none"
    /\ pipeErr = "none"
    /\ wpc = [w \in Workers |-> "none"]
    /\ witem = [w \in Workers |-> NoItem]
    /\ workCh = <<>>
    /\ chClosed = FALSE
    /\ fed = {}
    /\ feedQ = <<>>
    /\ totalFed = 0
    /\ done = 0
    /\ extractedCnt = 0
    /\ processed = 0
    /\ round = 0
    /\ remaining = 0
    /\ posts = <<>>
    /\ roundTarget = 0
    /\ waitExit = "none"
    /\ dirty = FALSE
    /\ saver = "off"
    /\ pushes = [p \in PostIDs |-> 0]
    /\ discoveries = 0
    /\ startStatus = [p \in PostIDs |-> "none"]

Init ==
    /\ cfg \in Configs
    /\ runsAllowed = RunsFor(cfg)
    /\ clock = 0
    /\ disk = [dir |-> <<>>, file |-> NoManifest]
    /\ invocations = 0
    /\ pc = "idle"
    /\ result = NoResult
    /\ ProcessReset
    /\ SaveReset
    /\ MuReset
    /\ RankReset
    /\ ItemReset
    /\ SubReset

\* A loader that never finds the saved manifest.
LoadNothing(dir) == NoManifest

\* LoadManifest(dir): nil when the directory holds no manifest.json.
\* Directories are named by the second of their creation and time does not
\* go back, so only the newest directory can ever be named again.
LoadManifest(dir) == IF disk.dir = dir THEN disk.file ELSE NoManifest

\* The goal counted as met only once it is exceeded.
HaveMoreThanEnough(m) ==
    CountByStatus(m, "extracted") + CountByStatus(m, "ranked") > cfg.Limit

HaveEnough(m) ==
    CountByStatus(m, "extracted") + CountByStatus(m, "ranked") >= cfg.Limit

Actionable(m) ==
    CountByStatus(m, "pending") + CountByStatus(m, "collected")
        + CountByStatus(m, "extracted") + CountByStatus(m, "ranked")

KnownIDs(m) == {m.threads[i].id : i \in 1..Len(m.threads)}

RECURSIVE Ascending(_)
\* The elements of a set of numbers as an increasing sequence.
Ascending(S) ==
    IF S = {} THEN <<>>
    ELSE LET x == CHOOSE y \in S : \A z \in S : y <= z
         IN <<x>> \o Ascending(S \ {x})

\* What a discovery call (findThreads) can return when asked for `rem`
\* posts: n posts not seen before, n up to rem + 1 (a collaborator may
\* return more than it was asked for); a noisy answer also repeats a post
\* already in the manifest and lists its first new post twice.
DiscoveryResults(m, rem) ==
    LET fresh == Ascending((1..(OverprovisionFactor * cfg.Limit)) \ KnownIDs(m))
        known == KnownIDs(m)
        old == IF known = {} THEN <<>>
               ELSE <<CHOOSE y \in known : \A z \in known : y >= z>>
    IN  { SubSeq(fresh, 1, n) : n \in 0..Min(rem + 1, Len(fresh)) }
        \cup
        { old \o <<fresh[1]>> \o SubSeq(fresh, 1, n) :
              n \in 1..Min(rem + 1, Len(fresh)) }

RECURSIVE AddPostsUnchecked(_, _, _, _)
\* The adding loop without its FindThread test.
AddPostsUnchecked(m, found, added, rem) ==
    IF found = <<>> \/ added >= rem THEN m
    ELSE AddPostsUnchecked(AddThread(m, NewThreadState(Head(found))),
                           Tail(found), added + 1, rem)

\* An append loop that adds every new post of the batch.
RECURSIVE AddPostsUncapped(_, _, _, _)
AddPostsUncapped(m, found, added, rem) ==
    IF found = <<>> THEN m
    ELSE IF FindThread(m, Head(found))
         THEN AddPostsUncapped(m, Tail(found), added, rem)
         ELSE AddPostsUncapped(AddThread(m, NewThreadState(Head(found))),
                               Tail(found), added + 1, rem)

RECURSIVE AddPosts(_, _, _, _)
\* The loop that adds discovered posts to the manifest (under mu).
AddPosts(m, found, added, rem) ==
    IF found = <<>> \/ added >= rem THEN m
    ELSE IF FindThread(m, Head(found))
         THEN AddPosts(m, Tail(found), added, rem)
         ELSE AddPosts(AddThread(m, NewThreadState(Head(found))),
                       Tail(found), added + 1, rem)

\* A feed that takes every thread not fed in this run, whatever its status.
NewItemsAnyStatus(m, fedSet) ==
    LET pend == SelectSeq(m.threads, LAMBDA t : t.id \notin fedSet)
    IN  [i \in 1..Len(pend) |-> [id |-> pend[i].id, needsEval |-> TRUE]]

\* A feed that takes every pending thread and does not consult the fed set.
NewItemsRefeed(m, fedSet) ==
    LET pend == SelectSeq(m.threads, LAMBDA t : t.status = "pending")
    IN  [i \in 1..Len(pend) |-> [id |-> pend[i].id, needsEval |-> TRUE]]

\* newItems of a round: the pending threads not fed yet, in manifest order.
NewItems(m, fedSet) ==
    LET pend == SelectSeq(m.threads,
                    LAMBDA t : t.status = "pending" /\ t.id \notin fedSet)
    IN  [i \in 1..Len(pend) |-> [id |-> pend[i].id, needsEval |-> TRUE]]

\* A resume feed that asks for the evaluation of the collected threads.
CollectedItemsEval(m) ==
    LET col == GetCollectedThreads(m)
    IN  [i \in 1..Len(col) |-> [id |-> col[i].id, needsEval |-> TRUE]]

\* Lines 443-450: the work items of the resume feed.
CollectedItems(m) ==
    LET col == GetCollectedThreads(m)
    IN  [i \in 1..Len(col) |-> [id |-> col[i].id, needsEval |-> FALSE]]

ItemIDs(items) == {items[i].id : i \in 1..Len(items)}

(* ------------------------------- Run ----------------------------------- *)

\* The state of the stepwise SaveManifest (see SpecSave).
saveVars == <<files, savePc, saveBy, saveData, saveErrs>>

\* The state of one rankEntries call followed stage by stage (see SpecRank).
rankVars == <<rankPc, inputs, sortTies, outputs, assessments, ranked, written, runLog>>

\* The state of a worker's body for one work item followed call by call
\* (see SpecItem).
itemVars == <<itemPc, item, form, threadFile, evalFile, attempt, agentRuns,
              lastErr, evalResult, payload, extractorCalls>>

\* State that the specifications of the whole pipeline leave alone.
\* The state of Run around Phase 0, over the runs of a session (see
\* SpecSub).
subVars == <<subPc, subConfig, subExplicit, subManifest, subDisk, subCalls,
             subOutcome, subSearch, subErr, subRuns>>

\* State that the specifications of the whole pipeline leave alone.
\* The mutex and the tasks' accesses of the manifest (see SpecMu).
muVars == <<mu, task>>

auxVars == <<saveVars, rankVars, itemVars, subVars, muVars>>

envVars == <<cfg, clock, invocations, runsAllowed, sessionDir, result, auxVars>>

pipeVars == <<wpc, witem, workCh, chClosed, fed, feedQ, totalFed, done,
              extractedCnt, processed, round, remaining, posts, roundTarget,
              waitExit, dirty, saver, pushes, discoveries,
                   startStatus>>

\* Run, lines 70-110: resolve the session directory, load or create the
\* manifest, start the run log, save.
RunStart ==
    /\ pc = "idle"
    /\ invocations < runsAllowed
    /\ LET dir == GenerateSlugFromQuery(Query, clock)
           loaded == LoadManifest(dir)
           m0 == IF loaded = NoManifest THEN NewManifest ELSE loaded[1]
           m1 == StartRun(m0)
       IN  /\ sessionDir' = dir
           /\ manifest' = m1
           /\ disk' = SaveManifest(dir, m1)
           /\ startStatus' = [p \in PostIDs |->
                                 IF FindThread(m0, p)
                                 THEN m0.threads[FindThreadIndex(m0, p)].status
                                 ELSE "none"]
    /\ invocations' = invocations + 1
    /\ result' = NoResult
    /\ cancelled' = FALSE
    /\ cancelAt' = "none"
    /\ pc' = "phase0"
    /\ UNCHANGED <<cfg, clock, runsAllowed, pipeErr, wpc, witem, workCh,
                   chClosed, fed, feedQ, totalFed, done, extractedCnt,
                   processed, round, remaining, posts, roundTarget, waitExit,
                   dirty, saver, pushes, discoveries, auxVars>>

\* Run, lines 114-143: Phase 0.  The query is set and no subreddits are
\* given; a stored list is reused, otherwise the discoverer is called and
\* fails, returns nothing, or returns a list that is stored and saved.
Phase0 ==
    /\ pc = "phase0"
    /\ \/ /\ manifest.discovered
          /\ UNCHANGED <<manifest, disk>>
       \/ /\ ~manifest.discovered
          /\ \E outcome \in {"error", "empty", "found"} :
               IF outcome = "found"
               THEN /\ manifest' = [manifest EXCEPT !.discovered = TRUE]
                    /\ disk' = SaveManifest(sessionDir, manifest')
               ELSE UNCHANGED <<manifest, disk>>
    /\ pc' = "pipeline"
    /\ UNCHANGED <<envVars, cancelled, cancelAt, pipeErr, pipeVars>>

\* runPipeline, lines 239-445: start the saver and the worker pool, read
\* the collected threads for the resume feed.
PipelineStart ==
    /\ pc = "pipeline"
    /\ wpc' = [w \in Workers |-> IF w \in Pool THEN "recv" ELSE "none"]
    /\ saver' = "on"
    /\ feedQ' = CollectedItems(manifest)
    /\ pc' = IF feedQ' = <<>> THEN "roundCheck" ELSE "resumeFeed"
    /\ UNCHANGED <<envVars, disk, manifest,
                   cancelled, cancelAt, pipeErr, witem, workCh,
                   chClosed, fed, totalFed, done, extractedCnt, processed,
                   round, remaining, posts, roundTarget, waitExit, dirty, pushes, discoveries,
                   startStatus>>

\* runPipeline, lines 446-450: one iteration of the resume feed.  The send
\* blocks while the channel is full.
ResumeFeedPush ==
    /\ pc = "resumeFeed"
    /\ Len(workCh) < WorkChCap
    /\ fed' = fed \cup {Head(feedQ).id}
    /\ totalFed' = totalFed + 1
    /\ workCh' = Append(workCh, Head(feedQ))
    /\ pushes' = [pushes EXCEPT ![Head(feedQ).id] = @ + 1]
    /\ feedQ' = Tail(feedQ)
    /\ pc' = IF feedQ' = <<>> THEN "roundCheck" ELSE "resumeFeed"
    /\ UNCHANGED <<envVars, disk, manifest,
                   cancelled, cancelAt, pipeErr, wpc, witem,
                   chClosed, done, extractedCnt, processed, round, remaining, posts,
                   roundTarget, waitExit, dirty, saver, discoveries,
                   startStatus>>

\* A round loop without the bound on its rounds.
RoundCheckUnbounded ==
    /\ pc = "roundCheck"
    /\ pc' = IF cancelled \/ HaveEnough(manifest) THEN "close" ELSE "count"
    /\ UNCHANGED <<envVars, disk, manifest, cancelled, cancelAt, pipeErr,
                   pipeVars>>

\* runPipeline, lines 454-467: loop condition, cancellation test and goal
\* test at the top of a round.
RoundCheck ==
    /\ pc = "roundCheck"
    /\ pc' = IF round >= maxRounds \/ cancelled \/ HaveEnough(manifest)
             THEN "close" ELSE "count"
    /\ UNCHANGED <<envVars, disk, manifest, cancelled, cancelAt, pipeErr,
                   pipeVars>>

\* runPipeline, lines 479-488: actionable count and remaining.
DiscoverCount ==
    /\ pc = "count"
    /\ LET rem == OverprovisionFactor * cfg.Limit - Actionable(manifest) IN
         IF rem <= 0
         THEN pc' = "feedCollect" /\ remaining' = 0
         ELSE pc' = "discover" /\ remaining' = rem
    /\ UNCHANGED <<envVars, disk, manifest, cancelled, cancelAt, pipeErr,
                   wpc, witem, workCh, chClosed, fed, feedQ, totalFed, done,
                   extractedCnt, processed, round, posts, roundTarget,
                   waitExit, dirty, saver, pushes, discoveries,
                   startStatus>>

\* runPipeline, lines 489-503: findThreads returned an error.  searchDirect
\* reports an error only when it searches all of Reddit, that is when no
\* subreddit list is known.
DiscoverFail ==
    /\ pc = "discover"
    /\ discoveries' = discoveries + 1
    /\ ~manifest.discovered
    /\ pipeErr' = IF ~cancelled /\ round = 0 THEN "discovery" ELSE pipeErr
    /\ remaining' = 0
    /\ pc' = "close"
    /\ UNCHANGED <<envVars, disk, manifest, cancelled, cancelAt, wpc, witem,
                   workCh, chClosed, fed, feedQ, totalFed, done, extractedCnt,
                   processed, round, posts, roundTarget, waitExit, dirty,
                   saver, pushes, startStatus>>

\* runPipeline, lines 489, 505-529: findThreads returned posts; they are
\* added to the manifest under mu and the manifest is marked dirty.
DiscoverAddFrom(results) ==
    /\ pc = "discover"
    /\ discoveries' = discoveries + 1
    /\ \E found \in results :
         /\ posts' = found
         /\ manifest' = AddPosts(manifest, found, 0, remaining)
    /\ dirty' = TRUE
    /\ remaining' = 0
    /\ pc' = "feedCollect"
    /\ UNCHANGED <<envVars, disk, cancelled, cancelAt, pipeErr, wpc, witem,
                   workCh, chClosed, fed, feedQ, totalFed, done, extractedCnt,
                   processed, round, roundTarget, waitExit, saver, pushes,
                   startStatus>>

DiscoverAdd == DiscoverAddFrom(DiscoveryResults(manifest, remaining))

\* runPipeline, lines 533-553: collect the pending threads not fed yet.
\* The round's batch is not used after this point.
FeedCollect ==
    /\ pc = "feedCollect"
    /\ posts' = <<>>
    /\ LET items == NewItems(manifest, fed) IN
       IF items = <<>> /\ round > 0
       THEN /\ pc' = "close"
            /\ UNCHANGED <<fed, feedQ, totalFed>>
       ELSE /\ fed' = fed \cup ItemIDs(items)
            /\ feedQ' = items
            /\ totalFed' = totalFed + Len(items)
            /\ pc' = "feed"
    /\ UNCHANGED <<envVars, disk, manifest, cancelled, cancelAt, pipeErr,
                   wpc, witem, workCh, chClosed, done, extractedCnt,
                   processed, round, remaining, roundTarget, waitExit, dirty,
                   saver, pushes, discoveries,
                   startStatus>>

\* runPipeline, lines 554-557 and 562: the top of the feed loop.  With no
\* item left, or after cancellation, the loop ends and roundTarget is read.
FeedCheck ==
    /\ pc = "feed"
    /\ IF feedQ = <<>> \/ cancelled
       THEN /\ roundTarget' = totalFed
            /\ feedQ' = <<>>
            /\ pc' = "wait"
       ELSE /\ pc' = "feedSend"
            /\ UNCHANGED <<roundTarget, feedQ>>
    /\ UNCHANGED <<envVars, disk, manifest, cancelled, cancelAt, pipeErr,
                   wpc, witem, workCh, chClosed, fed, totalFed, done,
                   extractedCnt, processed, round, remaining, posts, waitExit,
                   dirty, saver, pushes, discoveries,
                   startStatus>>

\* runPipeline, line 558: workCh <- item.  The send blocks while the
\* channel is full and does not look at the context.
FeedSend ==
    /\ pc = "feedSend"
    /\ Len(workCh) < WorkChCap
    /\ workCh' = Append(workCh, Head(feedQ))
    /\ pushes' = [pushes EXCEPT ![Head(feedQ).id] = @ + 1]
    /\ feedQ' = Tail(feedQ)
    /\ pc' = "feed"
    /\ UNCHANGED <<envVars, disk, manifest, cancelled, cancelAt, pipeErr,
                   wpc, witem, chClosed, fed, totalFed, done, extractedCnt,
                   processed, round, remaining, posts, roundTarget, waitExit, dirty,
                   saver, discoveries,
                   startStatus>>

\* runPipeline, lines 563-578: the wait loop ends on the first of its three
\* tests that holds; otherwise the driver sleeps and tests again.
RoundWait ==
    /\ pc = "wait"
    /\ \/ /\ cancelled
          /\ waitExit' = "cancelled"
       \/ /\ ~cancelled
          /\ done >= roundTarget
          /\ waitExit' = "done"
       \/ /\ ~cancelled
          /\ done < roundTarget
          /\ HaveEnough(manifest)
          /\ waitExit' = "enough"
    /\ pc' = "breaker"
    /\ UNCHANGED <<envVars, disk, manifest, cancelled, cancelAt, pipeErr,
                   wpc, witem, workCh, chClosed, fed, feedQ, totalFed, done,
                   extractedCnt, processed, round, remaining, posts, roundTarget,
                   dirty, saver, pushes, discoveries,
                   startStatus>>

\* runPipeline, lines 587-599: the circuit breaker, then the next round.
CircuitBreaker ==
    /\ pc = "breaker"
    /\ LET failCount == CountByStatus(manifest, "failed")
                            + CountByStatus(manifest, "skipped")
           total == failCount + CountByStatus(manifest, "extracted")
       IN  IF extractedCnt = 0 /\ round = 0 /\ total > 0 /\ failCount = total
           THEN /\ pc' = "close"
                /\ UNCHANGED round
           ELSE /\ pc' = "roundCheck"
                /\ round' = round + 1
    /\ roundTarget' = 0
    /\ waitExit' = "none"
    /\ UNCHANGED <<envVars, disk, manifest, cancelled, cancelAt, pipeErr,
                   wpc, witem, workCh, chClosed, fed, feedQ, totalFed, done,
                   extractedCnt, processed, remaining, posts, dirty, saver, pushes, discoveries,
                   startStatus>>

\* runPipeline, lines 495 and 601: close(workCh).
CloseChannel ==
    /\ pc = "close"
    /\ chClosed' = TRUE
    /\ pc' = "wgWait"
    /\ UNCHANGED <<envVars, disk, manifest, cancelled, cancelAt, pipeErr,
                   wpc, witem, workCh, fed, feedQ, totalFed, done,
                   extractedCnt, processed, round, remaining, posts, roundTarget,
                   waitExit, dirty, saver, pushes, discoveries,
                   startStatus>>

\* runPipeline, lines 496-497 and 602-605: wg.Wait() returns when every
\* worker has returned; saveCancel() then stops the saver.
WaitWorkers ==
    /\ pc = "wgWait"
    /\ \A w \in Pool : wpc[w] = "exited"
    /\ saver' = "stop"
    /\ pc' = "saveWait"
    /\ UNCHANGED <<envVars, disk, manifest, cancelled, cancelAt, pipeErr,
                   wpc, witem, workCh, chClosed, fed, feedQ, totalFed, done,
                   extractedCnt, processed, round, remaining, posts, roundTarget,
                   waitExit, dirty, pushes, discoveries,
                   startStatus>>

\* The goroutines and locals of runPipeline are gone once Run has returned
\* or the process has died.
PipelineGone ==
    /\ pipeErr' = "none"
    /\ wpc' = [w \in Workers |-> "none"]
    /\ witem' = [w \in Workers |-> NoItem]
    /\ workCh' = <<>>
    /\ chClosed' = FALSE
    /\ fed' = {}
    /\ feedQ' = <<>>
    /\ totalFed' = 0
    /\ done' = 0
    /\ extractedCnt' = 0
    /\ processed' = 0
    /\ round' = 0
    /\ remaining' = 0
    /\ posts' = <<>>
    /\ roundTarget' = 0
    /\ waitExit' = "none"
    /\ dirty' = FALSE
    /\ saver' = "off"
    /\ pushes' = [p \in PostIDs |-> 0]
    /\ discoveries' = 0
    /\ startStatus' = [p \in PostIDs |-> "none"]

\* Run returns (dir, err); m is the manifest as Run leaves it, saved or not.
Return(dir, err, m, saved) ==
    /\ result' = [dir |-> dir, err |-> err]
    /\ manifest' = m
    /\ disk' = IF saved THEN SaveManifest(sessionDir, m) ELSE disk
    /\ pc' = "idle"
    /\ PipelineGone
    /\ UNCHANGED <<cfg, clock, invocations, runsAllowed, sessionDir,
                   cancelled, cancelAt, auxVars>>

\* Run, lines 150-152, 160-162, 173-175.
ReturnInterrupted ==
    Return(sessionDir, ErrCanceled, CompleteRun(manifest, "interrupted"), TRUE)

\* The periodic saver, lines 280-285: a tick with the dirty flag set.
SaverTick ==
    /\ saver \in {"on", "stop"}
    /\ dirty
    /\ dirty' = FALSE
    /\ disk' = SaveManifest(sessionDir, manifest)
    /\ UNCHANGED <<envVars, pc, manifest, cancelled, cancelAt, pipeErr, wpc,
                   witem, workCh, chClosed, fed, feedQ, totalFed, done,
                   extractedCnt, processed, round, remaining, posts, roundTarget,
                   waitExit, saver, pushes, discoveries,
                   startStatus>>

\* The periodic saver, lines 286-290: the final save after saveCancel().
SaverFinal ==
    /\ saver = "stop"
    /\ disk' = SaveManifest(sessionDir, manifest)
    /\ saver' = "done"
    /\ UNCHANGED <<envVars, pc, manifest, cancelled, cancelAt, pipeErr, wpc,
                   witem, workCh, chClosed, fed, feedQ, totalFed, done,
                   extractedCnt, processed, round, remaining, posts, roundTarget,
                   waitExit, dirty, pushes, discoveries,
                   startStatus>>

\* runPipeline, lines 498-499 and 606-609, and Run, lines 147-166: the
\* pipeline returns after the saver's final save, and Run tests its error
\* and the context.
PipelineReturn ==
    /\ pc = "saveWait"
    /\ saver = "done"
    /\ IF pipeErr # "none"
       THEN IF cancelled
            THEN ReturnInterrupted
            ELSE Return("", pipeErr, manifest, FALSE)
       ELSE IF cancelled
            THEN ReturnInterrupted
            ELSE /\ pc' = IF cfg.ranker THEN "rankStart" ELSE "complete"
                 /\ UNCHANGED <<envVars, disk, manifest, cancelled, cancelAt,
                                pipeErr, pipeVars>>

\* A test that also takes extracted threads without entries.
RankableAny(t) == t.status = "extracted"

\* TRUE for the threads rankEntries collects inputs from and marks ranked.
Rankable(t) == t.status = "extracted" /\ t.entries > 0

RECURSIVE CollectInputs(_, _)
\* rankEntries, lines 751-766: one RankInput (post id, entry index) for
\* every entry of every rankable thread, from thread i on in manifest order.
CollectInputs(threads, i) ==
    IF i > Len(threads) THEN <<>>
    ELSE (IF Rankable(threads[i])
          THEN [j \in 1..threads[i].entries |->
                   [thread |-> threads[i].id, index |-> j - 1]]
          ELSE <<>>)
         \o CollectInputs(threads, i + 1)

\* A ranker that scores only the first entry it is given.
RankOutputsFirstOnly(in) ==
    [i \in 1..Min(1, Len(in)) |->
        [thread |-> in[i].thread, index |-> in[i].index, scored |-> TRUE]]

\* RankEntries of the ranker (ScoreAlgorithmic makes outputs[i] from
\* entries[i]; the later stages change scores, flags and reasons only): one
\* output with a final score for every input, naming its thread and entry.
RankOutputs(in) ==
    [i \in 1..Len(in) |->
        [thread |-> in[i].thread, index |-> in[i].index, scored |-> TRUE]]

\* rankEntries, lines 781-798: the final score of every output is written
\* to the entry it names; an output naming no thread or no entry is skipped.
WriteScores(m, outs) ==
    [m EXCEPT !.threads =
        [i \in 1..Len(m.threads) |->
            LET hit == {outs[k].index : k \in
                          {n \in 1..Len(outs) :
                              /\ FindThreadIndex(m, outs[n].thread) = i
                              /\ outs[n].scored
                              /\ outs[n].index >= 0
                              /\ outs[n].index < m.threads[i].entries}}
            IN  [m.threads[i] EXCEPT !.scored =
                    Cardinality(hit \cup (0..(m.threads[i].scored - 1)))]]]

\* rankEntries, lines 800-805: every rankable thread becomes ranked.
MarkRanked(m) ==
    [m EXCEPT !.threads =
        [i \in 1..Len(m.threads) |->
            IF Rankable(m.threads[i])
            THEN UpdateThreadRanked(m, m.threads[i].id).threads[i]
            ELSE m.threads[i]]]

\* rankEntries, lines 750-775: collect the inputs; with none, return.
RankStart ==
    /\ pc = "rankStart"
    /\ pc' = IF \E i \in 1..Len(manifest.threads) : Rankable(manifest.threads[i])
             THEN "ranking" ELSE "complete"
    /\ UNCHANGED <<envVars, disk, manifest, cancelled, cancelAt, pipeErr,
                   pipeVars>>

\* rankEntries, lines 775-811, and Run, lines 170-181: the ranker returns.
\* An error ends the run as interrupted when the context is cancelled and
\* is only a warning otherwise; a ranker may also return its algorithmic
\* outputs without error after cancellation.
RankReturn ==
    /\ pc = "ranking"
    /\ \E outcome \in {"ok", "error"} :
         IF outcome = "error"
         THEN IF cancelled
              THEN ReturnInterrupted
              ELSE /\ pc' = "complete"
                   /\ UNCHANGED <<envVars, disk, manifest, cancelled,
                                  cancelAt, pipeErr, pipeVars>>
         ELSE /\ manifest' =
                    MarkRanked(WriteScores(manifest,
                        RankOutputs(CollectInputs(manifest.threads, 1))))
              /\ disk' = SaveManifest(sessionDir, manifest')
              /\ pc' = "complete"
              /\ UNCHANGED <<envVars, cancelled, cancelAt, pipeErr, pipeVars>>

\* Run, lines 184-202.
Complete ==
    /\ pc = "complete"
    /\ Return(sessionDir, "nil", CompleteRun(manifest, "completed"), TRUE)

(* ------------------------------ workers -------------------------------- *)

\* A markThreadFailed that marks the first thread of the manifest.
MarkFirstFailed(m, postID, err) ==
    IF m.threads = <<>> THEN m
    ELSE [m EXCEPT !.threads[1].status = "failed",
                   !.threads[1].error = err]

\* markThreadFailed, lines 321-329.
MarkThreadFailed(m, postID, err) ==
    LET idx == FindThreadIndex(m, postID) IN
    IF idx = 0 THEN m
    ELSE [m EXCEPT !.threads[idx].status = "failed",
                   !.threads[idx].error = err]

\* Lines 353-360 and 393-399.
MarkCollected(m, postID) ==
    LET idx == FindThreadIndex(m, postID) IN
    IF idx = 0 THEN m ELSE [m EXCEPT !.threads[idx].status = "collected"]

\* The error a collaborator call can return: it honours the context, and it
\* can fail in transport.
CallErrors == IF cancelled THEN {ErrCanceled} ELSE {ErrTransport}

workerFrame == <<envVars, pc, disk, cancelled, cancelAt, pipeErr, chClosed,
                 fed, feedQ, totalFed, round, remaining, posts, roundTarget,
                 waitExit, saver, pushes, discoveries,
                   startStatus>>

\* Worker body, lines 304-320: receive an item; return when the context is
\* cancelled or the goal is met, else count the item as done and start it.
\* With the channel closed and empty the range loop ends.
WorkerRecv(w) ==
    /\ wpc[w] = "recv"
    /\ IF workCh # <<>>
       THEN /\ workCh' = Tail(workCh)
            /\ IF cancelled \/ HaveEnough(manifest)
               THEN /\ wpc' = [wpc EXCEPT ![w] = "exited"]
                    /\ UNCHANGED <<witem, done>>
               ELSE /\ witem' = [witem EXCEPT ![w] = Head(workCh)]
                    /\ done' = done + 1
                    /\ wpc' = [wpc EXCEPT ![w] =
                                 IF Head(workCh).needsEval THEN "eval"
                                 ELSE "extract"]
       ELSE /\ chClosed
            /\ wpc' = [wpc EXCEPT ![w] = "exited"]
            /\ UNCHANGED <<workCh, witem, done>>
    /\ UNCHANGED <<workerFrame, manifest, extractedCnt, processed, dirty>>

\* Worker body, lines 331-403: step 1.  With an evaluator: error, skip or
\* keep.  Without: the thread is fetched and written, which fails or not.
WorkerEval(w) ==
    /\ wpc[w] = "eval"
    /\ \/ \E err \in CallErrors :
            /\ manifest' = MarkThreadFailed(manifest, witem[w].id, err)
            /\ wpc' = [wpc EXCEPT ![w] = "recv"]
            /\ witem' = [witem EXCEPT ![w] = NoItem]
       \/ /\ cfg.evaluator
          /\ manifest' = UpdateThreadStatus(manifest, witem[w].id, "skipped")
          /\ wpc' = [wpc EXCEPT ![w] = "recv"]
          /\ witem' = [witem EXCEPT ![w] = NoItem]
       \/ /\ manifest' = MarkCollected(manifest, witem[w].id)
          /\ wpc' = [wpc EXCEPT ![w] = "extract"]
          /\ UNCHANGED witem
    /\ dirty' = TRUE
    /\ UNCHANGED <<workerFrame, workCh, done, extractedCnt, processed>>

\* Worker body, lines 405-434: step 2.  Loading the thread or extracting
\* fails, or the extractor returns its entries.
WorkerExtract(w) ==
    /\ wpc[w] = "extract"
    /\ \/ /\ \E err \in CallErrors :
                manifest' = MarkThreadFailed(manifest, witem[w].id, err)
          /\ UNCHANGED <<extractedCnt, processed>>
       \/ /\ \E n \in 0..MaxEntries :
                manifest' = UpdateThreadEntries(manifest, witem[w].id, n)
          /\ extractedCnt' = extractedCnt + 1
          /\ processed' = processed + 1
    /\ wpc' = [wpc EXCEPT ![w] = "recv"]
    /\ witem' = [witem EXCEPT ![w] = NoItem]
    /\ dirty' = TRUE
    /\ UNCHANGED <<workerFrame, workCh, done>>

(* ---------------------------- environment ------------------------------ *)

\* The phase of Run a driver position belongs to: Phase 0 and the pipeline,
\* the ranker's call, or the straight-line code of Run around that call.
PhaseOf(p) ==
    CASE p = "ranking" -> "ranking"
      [] p \in {"rankStart", "complete"} -> "straight"
      [] OTHER -> "pipeline"

\* The signal handler cancels the run's context.
Cancel ==
    /\ pc # "idle"
    /\ ~cancelled
    /\ cancelled' = TRUE
    /\ cancelAt' = PhaseOf(pc)
    /\ UNCHANGED <<envVars, pc, disk, manifest, pipeErr, pipeVars>>

\* The process is killed: its memory is lost, the disk stays.
Crash ==
    /\ pc # "idle"
    /\ pc' = "idle"
    /\ result' = [dir |-> "", err |-> "killed"]
    /\ manifest' = NewManifest
    /\ cancelled' = FALSE
    /\ cancelAt' = "none"
    /\ PipelineGone
    /\ UNCHANGED <<cfg, clock, invocations, runsAllowed, sessionDir, disk,
                   auxVars>>

\* A second passes.  The clock is read only when Run starts, so time is
\* let pass between two invocations.
ClockTick ==
    /\ pc = "idle"
    /\ invocations > 0
    /\ invocations < runsAllowed
    /\ clock < MaxClock
    /\ clock' = clock + 1
    /\ UNCHANGED <<cfg, invocations, runsAllowed, sessionDir, result, pc,
                   disk, manifest, cancelled, cancelAt, pipeErr, pipeVars,
                   auxVars>>

\* The driver's steps in a run of a new session.
FreshDriver ==
    \/ RunStart
    \/ Phase0
    \/ PipelineStart
    \/ RoundCheck
    \/ DiscoverCount
    \/ DiscoverFail
    \/ DiscoverAdd
    \/ FeedCollect
    \/ FeedCheck
    \/ FeedSend
    \/ RoundWait
    \/ CircuitBreaker
    \/ CloseChannel
    \/ WaitWorkers
    \/ PipelineReturn
    \/ RankStart
    \/ RankReturn
    \/ Complete

Driver == FreshDriver \/ ResumeFeedPush

Worker(w) == WorkerRecv(w) \/ WorkerEval(w) \/ WorkerExtract(w)

Next ==
    \/ Driver
    \/ \E w \in Workers : Worker(w)
    \/ SaverTick
    \/ SaverFinal
    \/ Cancel
    \/ Crash
    \/ ClockTick

Spec == Init /\ [][Next]_vars

\* One run of a new session with a large target, shorter than the saver's
\* period (no tick of the periodic saver falls into it).
InitLarge ==
    /\ cfg \in LargeConfigs
    /\ runsAllowed = 1
    /\ clock = 0
    /\ disk = [dir |-> <<>>, file |-> NoManifest]
    /\ invocations = 0
    /\ pc = "idle"
    /\ result = NoResult
    /\ ProcessReset
    /\ SaveReset
    /\ MuReset
    /\ RankReset
    /\ ItemReset
    /\ SubReset

NextLarge ==
    \/ FreshDriver
    \/ \E w \in Workers : Worker(w)
    \/ SaverFinal
    \/ Cancel
    \/ Crash

SpecLarge == InitLarge /\ [][NextLarge]_vars

(* ------------------------- status monotonicity ------------------------- *)

\* The statuses a thread may take after status a.
Forward(a) ==
    CASE a = "pending" ->
           {"pending", "collected", "extracted", "ranked", "skipped", "failed"}
      [] a = "collected" ->
           {"collected", "extracted", "ranked", "skipped", "failed"}
      [] a = "extracted" -> {"extracted", "ranked"}
      [] OTHER -> {a}

\* Every thread of manifest m that is also in manifest n has moved forward.
MovedForward(m, n) ==
    \A i \in 1..Len(m.threads) : \A j \in 1..Len(n.threads) :
        m.threads[i].id = n.threads[j].id
            => n.threads[j].status \in Forward(m.threads[i].status)

\* The work items that wait for a worker: still to be pushed, or in workCh.
WaitingItems == ItemIDs(feedQ) \cup ItemIDs(workCh)

StatusOf(m, postID) == m.threads[FindThreadIndex(m, postID)].status

\* C1: over the lifetime of a session (in memory through a run, and on disk
\* across runs) the status of a post id only moves forward along
\* pending -> collected -> extracted -> ranked or from pending/collected to
\* skipped/failed, never back; and an item that waits to be pushed or lies
\* in the work channel is never a skipped, failed, extracted or ranked thread.
C1_StatusForward ==
    [][ /\ MovedForward(manifest, manifest')
        /\ (disk.file # NoManifest /\ disk'.dir = disk.dir)
               => MovedForward(disk.file[1], disk'.file[1])
        /\ \A p \in WaitingItems' :
               /\ FindThread(manifest', p)
               /\ StatusOf(manifest', p) \in {"pending", "collected"} ]_vars

\* A resumed run (second invocation) has loaded a thread that an earlier run
\* left skipped or failed, did not feed it, and has taken another thread
\* all the way to ranked.
C1_Witness ==
    /\ invocations = 2
    /\ pc = "complete"
    /\ \E i \in 1..Len(manifest.threads) :
          /\ manifest.threads[i].status \in {"skipped", "failed"}
          /\ manifest.threads[i].id \notin fed
    /\ \E j \in 1..Len(manifest.threads) :
          /\ manifest.threads[j].status = "ranked"
          /\ manifest.threads[j].id \in fed

(* --------------------------- unique post ids --------------------------- *)

UniqueIDs(m) ==
    \A i, j \in 1..Len(m.threads) :
        m.threads[i].id = m.threads[j].id => i = j

HasDuplicate(seq) == \E i, j \in 1..Len(seq) : i # j /\ seq[i] = seq[j]

\* C2: no two threads of the manifest share a post id, in memory and in the
\* saved manifest.json, after any number of discovery rounds and resumed
\* runs, whatever batches the discovery calls return.
C2_UniquePostIDs ==
    /\ UniqueIDs(manifest)
    /\ disk.file # NoManifest => UniqueIDs(disk.file[1])

\* In a resumed run a discovery call has just returned a batch that names a
\* post an earlier step already finished with and lists a new post twice,
\* and the adding loop has run over it.
C2_Witness ==
    /\ invocations = 2
    /\ pc = "feedCollect"
    /\ HasDuplicate(posts)
    /\ FindThread(manifest, posts[1])
    /\ StatusOf(manifest, posts[1]) # "pending"
    /\ \E i \in 1..Len(manifest.threads) :
          manifest.threads[i].status = "pending"

(* ------------------------------ fed once ------------------------------- *)

\* The workers that hold a work item.
Busy == {w \in Pool : wpc[w] \in {"eval", "extract"}}

\* C3: within a run each post id is sent into the work channel at most
\* once, and no two workers hold the same thread at the same time.
C3_FedOnce ==
    /\ \A p \in PostIDs : pushes[p] <= 1
    /\ \A v, w \in Busy : witem[v].id = witem[w].id => v = w

\* In a second discovery round two workers each process a thread while the
\* driver has sent further threads.
C3_Witness ==
    /\ round >= 1
    /\ Cardinality(Busy) = 2
    /\ \E p \in PostIDs : pushes[p] = 1 /\ \A w \in Busy : witem[w].id # p

(* --------------------------- blocking sends ---------------------------- *)

\* The driver is at a send into workCh (resume feed or round feed).
AtSend == pc \in {"resumeFeed", "feedSend"}

AllWorkersExited == \A w \in Pool : wpc[w] = "exited"

\* C4: the driver's send into the work channel never blocks forever: when
\* the driver is at a send and every worker has already returned, the
\* channel has room for the item, so the send completes, the driver goes on
\* to close the channel and runPipeline returns.  (A send into a full
\* channel with no worker left can never complete.)
C4_SendNeverStuck ==
    (AtSend /\ AllWorkersExited) => Len(workCh) < WorkChCap

(* ---------------------------- round progress --------------------------- *)

\* C5: when the driver has left a round's wait because done >= fed (not
\* because the goal was met or the run was cancelled), every thread fed so
\* far in this run has reached skipped, failed or extracted: none is still
\* being evaluated or extracted.
C5_WaitExitAllTerminal ==
    (pc = "breaker" /\ waitExit = "done") =>
        /\ Busy = {}
        /\ \A p \in fed :
              StatusOf(manifest, p) \in {"skipped", "failed", "extracted"}

(* ----------------------------- cancellation --------------------------- *)

\* Run has returned and its context was cancelled while it ran.
ReturnedAfterCancel == pc = "idle" /\ cancelled

LastRun(m) == m.runs[Len(m.runs)]

\* C6: if the context is cancelled during Phase 0, discovery,
\* evaluate/extract or while the ranker runs, Run returns the session
\* directory with the cancellation, the last RunLog of the saved manifest is
\* "interrupted", and manifest.json holds the last in-memory manifest.
C6_CancelInterrupted ==
    (ReturnedAfterCancel /\ cancelAt \in {"pipeline", "ranking"}) =>
        /\ result = [dir |-> sessionDir, err |-> ErrCanceled]
        /\ disk = SaveManifest(sessionDir, manifest)
        /\ LastRun(manifest) = "interrupted"

\* A step that brings Run closer to returning: of the driver, of a worker,
\* or the saver's final save the driver waits for.  (A periodic save changes
\* nothing the driver or a worker waits for.)
ProgressStep ==
    \/ Driver
    \/ \E w \in Workers : Worker(w)
    \/ SaverFinal

\* C7: after the context is cancelled Run eventually returns: as long as a
\* cancelled Run has not returned, some task of it can take a step (the
\* collaborator calls return), so neither the driver at a send or in the
\* round wait, nor a worker at the channel, nor the saver is blocked forever.
C7_CancelledRunProgresses ==
    (cancelled /\ pc # "idle") => ENABLED ProgressStep

\* The threads of manifest m that failed with the cancellation as error.
FailedByCancel(m) ==
    {i \in 1..Len(m.threads) :
        m.threads[i].status = "failed" /\ m.threads[i].error = ErrCanceled}

\* C8: cancellation never moves a thread to failed: no thread, in memory or
\* in the saved manifest, is failed with the context's cancellation as its
\* error; a thread in flight at cancellation keeps pending or collected.
C8_CancelNeverFails ==
    /\ FailedByCancel(manifest) = {}
    /\ disk.file # NoManifest => FailedByCancel(disk.file[1]) = {}

(* ------------------------------- resume -------------------------------- *)

\* The post ids of manifest m in status extracted or ranked.
Results(m) ==
    {m.threads[i].id : i \in {j \in 1..Len(m.threads) :
                                m.threads[j].status \in {"extracted", "ranked"}}}

\* C9: resume idempotence: whatever is written to the manifest.json of a
\* session directory, by the run that created it or by a later run over the
\* same directory, keeps every post id that was extracted or ranked there
\* before; so the set after a second run is a superset of the set before it.
C9_ResumeKeepsResults ==
    [][ (disk.file # NoManifest /\ disk'.dir = disk.dir)
            => Results(disk.file[1]) \subseteq Results(disk'.file[1]) ]_vars

\* A second run over the directory of the first has come to its end without
\* feeding any thread, and the results of the first run are in its manifest
\* and on disk.
C9_Witness ==
    /\ invocations = 2
    /\ pc = "complete"
    /\ sessionDir = disk.dir
    /\ Len(manifest.runs) = 2
    /\ totalFed = 0
    /\ Results(manifest) # {}
    /\ Results(disk.file[1]) = Results(manifest)

\* C10: a second invocation of Run with the same form, query and output
\* directory works in the session directory of the first invocation and has
\* loaded the manifest the first one saved (its RunLog is the second one).
C10_SameSessionDir ==
    (invocations = 2 /\ pc # "idle") =>
        /\ sessionDir = GenerateSlugFromQuery(Query, 0)
        /\ Len(manifest.runs) = 2

(* ---------------------- SaveManifest, step by step --------------------- *)

\* Posts of the sessions whose saves are followed byte by byte.
MaxSavePosts == 2

\* json.MarshalIndent(manifest): the bytes of manifest.json as a sequence of
\* tokens; a write of the file puts them down one after the other.
Marshal(m) ==
    <<[brace |-> "{"], [discovered |-> m.discovered]>>
        \o [i \in 1..Len(m.runs) |-> [run |-> m.runs[i]]]
        \o [i \in 1..Len(m.threads) |-> [thread |-> m.threads[i]]]
        \o <<[brace |-> "}"]>>

IsBrace(tok, b) == DOMAIN tok = {"brace"} /\ tok.brace = b

\* json.Unmarshal succeeds: the bytes are one complete object.
Parses(bytes) ==
    /\ Len(bytes) >= 3
    /\ IsBrace(bytes[1], "{")
    /\ DOMAIN bytes[2] = {"discovered"}
    /\ IsBrace(bytes[Len(bytes)], "}")
    /\ \A i \in 3..(Len(bytes) - 1) :
          /\ DOMAIN bytes[i] \in {{"run"}, {"thread"}}
          /\ (DOMAIN bytes[i] = {"run"} /\ i > 3)
                => DOMAIN bytes[i - 1] = {"run"}

\* json.Unmarshal(data, &manifest) of bytes that parse.
Unmarshal(bytes) ==
    LET body == SubSeq(bytes, 3, Len(bytes) - 1)
        rs == SelectSeq(body, LAMBDA tok : DOMAIN tok = {"run"})
        ts == SelectSeq(body, LAMBDA tok : DOMAIN tok = {"thread"})
    IN  [threads |-> [i \in 1..Len(ts) |-> ts[i].thread],
         runs |-> [i \in 1..Len(rs) |-> rs[i].run],
         discovered |-> bytes[2].discovered]

\* Writing in place: the path itself.
CanonPath(path) == path

\* path + ".tmp": the sibling file SaveManifest writes before renaming.
TmpPath(path) == IF path = "canon" THEN "tmp" ELSE path

\* os.Rename(tmpPath, path).
Rename(fs, from, to) ==
    IF from = to THEN fs
    ELSE [[fs EXCEPT ![to] = fs[from]] EXCEPT ![from] = NoFile]

\* A mutation that leaves the flag as it was.
KeepFlag(d) == d

\* markDirty(): dirty.Store(true).
MarkDirty(d) == TRUE

\* The manifest mutex is free for a worker or the driver: the saver holds
\* it from before the marshalling to after the rename.
MuFree == ~(saveBy \in {"saver", "final"} /\ savePc \in {"create", "write", "rename"})

\* One mutation of the manifest by the pipeline: a discovered post is
\* added, or a worker moves a thread forward.
Mutations(m) ==
    { AddThread(m, NewThreadState(p)) : p \in (1..MaxSavePosts) \ KnownIDs(m) }
    \cup { MarkCollected(m, m.threads[i].id) :
             i \in {j \in 1..Len(m.threads) : m.threads[j].status = "pending"} }
    \cup { UpdateThreadEntries(m, m.threads[i].id, 1) :
             i \in {j \in 1..Len(m.threads) : m.threads[j].status = "collected"} }

\* State of the whole-pipeline specifications that a followed save leaves alone.
saveFrame == <<cfg, clock, disk, runsAllowed, sessionDir, cancelled, cancelAt,
               pipeErr, witem, workCh, chClosed, fed, feedQ, totalFed, done,
               extractedCnt, processed, round, remaining, posts, roundTarget,
               waitExit, pushes, discoveries, startStatus, rankVars, itemVars,
               subVars, muVars>>

\* LoadManifest over the files: absent, a manifest, or a parse error.
LoadFile ==
    IF ~files.canon.exists THEN [err |-> "none", m |-> NewManifest]
    ELSE IF Parses(files.canon.bytes)
         THEN [err |-> "none", m |-> Unmarshal(files.canon.bytes)]
         ELSE [err |-> "parsing manifest", m |-> NewManifest]

\* Run up to its first save: the manifest is loaded or created, the run is
\* recorded, and SaveManifest is called.
SaveRunStart ==
    /\ pc = "idle"
    /\ invocations < MaxRuns
    /\ invocations' = invocations + 1
    /\ IF LoadFile.err = "none"
       THEN /\ manifest' = StartRun(LoadFile.m)
            /\ pc' = "initialSave"
            /\ saveBy' = "initial"
            /\ savePc' = "marshal"
            /\ result' = NoResult
       ELSE /\ result' = [dir |-> "", err |-> LoadFile.err]
            /\ UNCHANGED <<manifest, pc, saveBy, savePc>>
    /\ saveErrs' = 0
    /\ UNCHANGED <<wpc, dirty, saver, files, saveData, saveFrame>>

\* SaveManifest up to the marshalling; the saver takes the mutex first.
SaveMarshal ==
    /\ savePc = "marshal"
    /\ saveData' = Marshal(manifest)
    /\ savePc' = "create"
    /\ UNCHANGED <<pc, manifest, invocations, result, wpc, dirty, saver, files,
                   saveBy, saveErrs, saveFrame>>

\* os.WriteFile opens the temporary file, truncating what a crashed save left.
SaveCreate ==
    /\ savePc = "create"
    /\ files' = [files EXCEPT ![TmpPath("canon")] = [exists |-> TRUE, bytes |-> <<>>]]
    /\ savePc' = "write"
    /\ UNCHANGED <<pc, manifest, invocations, result, wpc, dirty, saver,
                   saveBy, saveData, saveErrs, saveFrame>>

\* os.WriteFile writes the next bytes.
SaveWrite ==
    /\ savePc = "write"
    /\ LET path == TmpPath("canon")
           n == Len(files[path].bytes)
       IN  /\ n < Len(saveData)
           /\ files' = [files EXCEPT ![path].bytes = Append(@, saveData[n + 1])]
           /\ savePc' = IF n + 1 = Len(saveData) THEN "rename" ELSE "write"
    /\ UNCHANGED <<pc, manifest, invocations, result, wpc, dirty, saver,
                   saveBy, saveData, saveErrs, saveFrame>>

\* What the caller does when SaveManifest returns: Run gives up on an error
\* of its own saves; the saver goroutine goes on whatever was returned.
AfterSave(ok) ==
    /\ savePc' = "idle"
    /\ saveBy' = "none"
    /\ saveData' = <<>>
    /\ CASE saveBy = "initial" ->
              IF ok
              THEN /\ pc' = "pipeline"
                   /\ saver' = "on"
                   /\ wpc' = [wpc EXCEPT ![1] = "recv"]
                   /\ UNCHANGED <<result, saveErrs, dirty>>
              ELSE /\ pc' = "idle"
                   /\ result' = [dir |-> "", err |-> "saving manifest"]
                   /\ UNCHANGED <<saver, wpc, saveErrs, dirty>>
         [] saveBy = "saver" ->
              /\ saveErrs' = IF ok THEN saveErrs ELSE 1
              /\ UNCHANGED <<pc, saver, wpc, result, dirty>>
         [] saveBy = "final" ->
              /\ saveErrs' = IF ok THEN saveErrs ELSE 1
              /\ saver' = "done"
              /\ UNCHANGED <<pc, wpc, result, dirty>>
         [] saveBy = "complete" ->
              /\ pc' = "idle"
              /\ result' = IF ok THEN [dir |-> "session", err |-> "nil"]
                                 ELSE [dir |-> "", err |-> "saving final manifest"]
              /\ saver' = "off"
              /\ dirty' = FALSE
              /\ saveErrs' = saveErrs
              /\ UNCHANGED wpc

\* os.Rename puts the temporary file in the place of manifest.json.
SaveRename ==
    /\ savePc = "rename"
    /\ files' = Rename(files, TmpPath("canon"), "canon")
    /\ AfterSave(TRUE)
    /\ UNCHANGED <<manifest, invocations, saveFrame>>

\* os.WriteFile or os.Rename fails (disk full, permissions): SaveManifest
\* returns the error and leaves the files as they are.
SaveFail ==
    /\ savePc \in {"create", "write", "rename"}
    /\ AfterSave(FALSE)
    /\ UNCHANGED <<manifest, invocations, files, saveFrame>>

\* A worker (or the discovery loop) changes the manifest under the mutex.
Mutate ==
    /\ pc = "pipeline"
    /\ wpc[1] = "recv"
    /\ MuFree
    /\ \E m \in Mutations(manifest) : manifest' = m
    /\ wpc' = [wpc EXCEPT ![1] = "mark"]
    /\ UNCHANGED <<pc, invocations, result, dirty, saver, files, savePc, saveBy,
                   saveData, saveErrs, saveFrame>>

\* ... and calls markDirty after unlocking.
MarkDirtyStep ==
    /\ wpc[1] = "mark"
    /\ dirty' = MarkDirty(dirty)
    /\ wpc' = [wpc EXCEPT ![1] = "recv"]
    /\ UNCHANGED <<pc, manifest, invocations, result, saver, files, savePc,
                   saveBy, saveData, saveErrs, saveFrame>>

\* The saver's ticker fires: the flag is swapped, then the manifest saved.
SaverSwap ==
    /\ saver = "on"
    /\ saveBy = "none"
    /\ dirty
    /\ dirty' = FALSE
    /\ saveBy' = "saver"
    /\ savePc' = "marshal"
    /\ UNCHANGED <<pc, manifest, invocations, result, wpc, saver, files,
                   saveData, saveErrs, saveFrame>>

\* runPipeline's end: the workers have exited and saveCancel is called.
SaveCancel ==
    /\ pc = "pipeline"
    /\ wpc[1] = "recv"
    /\ saver = "on"
    /\ pc' = "saveWait"
    /\ saver' = "stop"
    /\ wpc' = [wpc EXCEPT ![1] = "exited"]
    /\ UNCHANGED <<manifest, invocations, result, dirty, files, savePc, saveBy,
                   saveData, saveErrs, saveFrame>>

\* The saver sees saveCtx.Done() and saves one last time.
SaverLast ==
    /\ saver = "stop"
    /\ saveBy = "none"
    /\ saveBy' = "final"
    /\ savePc' = "marshal"
    /\ UNCHANGED <<pc, manifest, invocations, result, wpc, dirty, saver, files,
                   saveData, saveErrs, saveFrame>>

\* <-saveDone, then Run completes the run and saves the manifest itself.
SaveComplete ==
    /\ pc = "saveWait"
    /\ saver = "done"
    /\ manifest' = CompleteRun(manifest, "completed")
    /\ pc' = "finalSave"
    /\ saveBy' = "complete"
    /\ savePc' = "marshal"
    /\ UNCHANGED <<invocations, result, wpc, dirty, saver, files, saveData,
                   saveErrs, saveFrame>>

\* The process dies at any step; the files stay as they are.
SaveCrash ==
    /\ pc # "idle"
    /\ pc' = "idle"
    /\ manifest' = NewManifest
    /\ wpc' = [w \in Workers |-> "none"]
    /\ dirty' = FALSE
    /\ saver' = "off"
    /\ savePc' = "idle"
    /\ saveBy' = "none"
    /\ saveData' = <<>>
    /\ saveErrs' = 0
    /\ result' = [dir |-> "", err |-> "killed"]
    /\ UNCHANGED <<invocations, files, saveFrame>>

InitSave ==
    /\ cfg = [Limit |-> 1, Workers |-> 1, evaluator |-> TRUE, ranker |-> TRUE]
    /\ runsAllowed = MaxRuns
    /\ clock = 0
    /\ disk = [dir |-> <<>>, file |-> NoManifest]
    /\ invocations = 0
    /\ pc = "idle"
    /\ result = NoResult
    /\ ProcessReset
    /\ SaveReset
    /\ MuReset
    /\ RankReset
    /\ ItemReset
    /\ SubReset

NextSave ==
    \/ SaveRunStart
    \/ SaveMarshal
    \/ SaveCreate
    \/ SaveWrite
    \/ SaveRename
    \/ SaveFail
    \/ Mutate
    \/ MarkDirtyStep
    \/ SaverSwap
    \/ SaveCancel
    \/ SaverLast
    \/ SaveComplete
    \/ SaveCrash

SpecSave == InitSave /\ [][NextSave]_vars

(* --------------------------------- C11 --------------------------------- *)

\* The file at a path is one complete serialized manifest.
CompleteSnapshot(f) == Parses(f.bytes) /\ Marshal(Unmarshal(f.bytes)) = f.bytes

\* C11: at every moment, a crash at any step of SaveManifest and the saver's
\* saves between worker mutations included, manifest.json is either absent
\* or holds one complete serialized snapshot of the manifest.
C11_ManifestFileComplete ==
    files.canon.exists => CompleteSnapshot(files.canon)

\* The process was killed in the middle of a write: the temporary file holds
\* a truncated manifest next to the manifest.json of an earlier save.
C11_Witness ==
    /\ pc = "idle"
    /\ result.err = "killed"
    /\ files.canon.exists
    /\ files.tmp.exists
    /\ Len(files.tmp.bytes) > 0
    /\ ~Parses(files.tmp.bytes)

(* --------------------------------- C12 --------------------------------- *)

\* manifest.json holds exactly the in-memory manifest.
DiskIsMemory == files.canon.exists /\ files.canon.bytes = Marshal(manifest)

\* The pipeline is at rest with the flag clear: no mutation is waiting for
\* its markDirty and no save is under way.
FlagClearAtRest ==
    /\ pc = "pipeline"
    /\ saver = "on"
    /\ ~dirty
    /\ wpc[1] = "recv"
    /\ saveBy = "none"

\* runPipeline has returned: the workers exited and the saver finished.
PipelineReturned == pc = "saveWait" /\ saver = "done"

\* C12: the dirty-flag handshake loses no mutation: while no save has failed,
\* a clear flag at rest means every mutation is on disk, and when runPipeline
\* returns the manifest on disk equals the manifest in memory.
C12_NoMutationLost ==
    (saveErrs = 0 /\ (FlagClearAtRest \/ PipelineReturned)) => DiskIsMemory

\* runPipeline returned after both posts were added and one was extracted,
\* with no failed save.
C12_Witness ==
    /\ PipelineReturned
    /\ saveErrs = 0
    /\ Len(manifest.threads) = MaxSavePosts
    /\ \E i \in 1..Len(manifest.threads) : manifest.threads[i].status = "extracted"
    /\ DiskIsMemory

(* --------------------------------- C13 --------------------------------- *)

\* Run has returned to its caller (it was not killed).
RunReturned == pc = "idle" /\ result.err \notin {"none", "killed"}

\* C13: a save of the periodic saver or of the pipeline's forced final save
\* that failed is observable in the result of Run: Run does not return
\* success after a background save failed.
C13_SaveFailureSurfaced ==
    (RunReturned /\ saveErrs > 0) => result.err # "nil"

(* ------------------------------ The ranker ------------------------------ *)

\* Entries handed to one RankEntries call.
MaxRankEntries == 3
\* Threads the entries come from.
MaxRankThreads == 2
\* Assessments in one model response.
MaxAssessments == 1

Max(a, b) == IF a >= b THEN a ELSE b

\* What primaryFieldString returns for an entry, as sequences of characters:
\* "" (no primary field, or a nil value), "!?", "Cd via x", "abcd (x)" and
\* "abcx - d".  They normalize to "", "cd", "abcd" and "abcx": "cd" and
\* "abcx" are both similar to "abcd" and not to each other.
RawValues ==
    { <<>>,
      <<"!", "?">>,
      <<"C", "d", " ", "v", "i", "a", " ", "x">>,
      <<"a", "b", "c", "d", " ", "(", "x", ")">>,
      <<"a", "b", "c", "x", " ", "-", " ", "d">> }
\* Average confidence of the non-null fields, times 100; the confidence is
\* whatever number the extraction wrote.
ConfidenceScores == {-100, 50, 300}
\* Filled weight over total weight, times 100.
CompletenessScores == {100}
\* The log-scaled upvote and comment components of a thread, 0..100.
UpvoteScores == {0}
CommentScores == {0}

\* One RankInput, with the components ScoreAlgorithmic derives from it;
\* raw is what primaryFieldString returns for its entry.
RankInputs ==
    [thread : 1..MaxRankThreads, raw : RawValues, confidence : ConfidenceScores,
     completeness : CompletenessScores, upvote : UpvoteScores,
     comment : CommentScores]

\* rankEntries collects the inputs thread by thread; the threads are numbered
\* in the order of the manifest.
ByThread(in) ==
    /\ in[1].thread = 1
    /\ \A i \in 1..(Len(in) - 1) :
          in[i + 1].thread \in {in[i].thread, in[i].thread + 1}

InputLists ==
    UNION { {in \in [1..n -> RankInputs] : ByThread(in)} : n \in 1..MaxRankEntries }

\* The score as computed, without the clamp.
Unclamped(x) == x

\* math.Max(0, math.Min(100, algoScore)).
Clamp(x) == Max(0, Min(100, x))

\* ScoreAlgorithmic for one input: the weighted sum, clamped.
AlgoScore(e) ==
    Clamp((e.confidence * 40 + e.completeness * 25 + e.upvote * 20
             + e.comment * 15) \div 100)

\* ScoreAlgorithmic: one RankOutput per input.
ScoreAlgorithmic(in) ==
    [i \in 1..Len(in) |->
        [thread |-> in[i].thread, algo |-> AlgoScore(in[i]),
         final |-> AlgoScore(in[i]), penalty |-> 0, flags |-> <<>>,
         reason |-> <<>>]]

\* strings.Contains(a, b).
Contains(a, b) ==
    \E k \in 0..(Len(a) - Len(b)) : SubSeq(a, k + 1, k + Len(b)) = b

\* Length of the common prefix of two strings.
RECURSIVE CommonLen(_, _)
CommonLen(a, b) ==
    IF a = <<>> \/ b = <<>> \/ Head(a) # Head(b) THEN 0
    ELSE 1 + CommonLen(Tail(a), Tail(b))

\* areSimilar: equal, one contains the other, or the shorter has at least 4
\* characters and 70% of it is a common prefix.
areSimilar(a, b) ==
    \/ a = b
    \/ Contains(a, b) \/ Contains(b, a)
    \/ LET shorter == IF Len(a) > Len(b) THEN b ELSE a
       IN  /\ Len(shorter) >= 4
           /\ 10 * CommonLen(a, b) >= 7 * Len(shorter)

\* find with path compression: the parents after the call and the root.
RECURSIVE find(_, _)
find(parent, x) ==
    IF parent[x] = x THEN [parent |-> parent, root |-> x]
    ELSE LET f == find(parent, parent[x])
         IN  [parent |-> [f.parent EXCEPT ![x] = f.root], root |-> f.root]

\* A union that links the elements instead of their roots.
unionElements(parent, a, b) == [parent EXCEPT ![a] = b]

\* union(a, b): the root of a is put under the root of b.
union(parent, a, b) ==
    LET fa == find(parent, a)
        fb == find(fa.parent, b)
    IN  IF fa.root # fb.root THEN [fb.parent EXCEPT ![fa.root] = fb.root]
        ELSE fb.parent

\* The double loop over all pairs i < j of items, from pair (i, j) on.
RECURSIVE UnionPairs(_, _, _, _)
UnionPairs(parent, items, i, j) ==
    IF i > Len(items) THEN parent
    ELSE IF j > Len(items) THEN UnionPairs(parent, items, i + 1, i + 2)
    ELSE UnionPairs(IF areSimilar(items[i].normValue, items[j].normValue)
                    THEN union(parent, i, j) ELSE parent,
                    items, i, j + 1)

\* The upper-case letters of the model's alphabet and their lower case.
UpperLetters == <<"A", "B", "C", "D">>
LowerLetters == <<"a", "b", "c", "d">>
Letters == {"a", "b", "c", "d", "i", "v", "x"} \cup {"A", "B", "C", "D"}
Digits == {"0", "1"}

\* strings.ToLower.
ToLower(s) ==
    [k \in 1..Len(s) |->
        IF \E u \in 1..Len(UpperLetters) : UpperLetters[u] = s[k]
        THEN LowerLetters[CHOOSE u \in 1..Len(UpperLetters) : UpperLetters[u] = s[k]]
        ELSE s[k]]

\* strings.Index(s, sep): the 0-based position of the first occurrence, or -1.
Index(s, sep) ==
    LET at == {k \in 0..(Len(s) - Len(sep)) : SubSeq(s, k + 1, k + Len(sep)) = sep}
    IN  IF at = {} THEN -1 ELSE CHOOSE k \in at : \A l \in at : k <= l

\* if idx := strings.Index(s, sep); idx > 0 { s = s[:idx] }.
CutAt(s, sep) == IF Index(s, sep) > 0 THEN SubSeq(s, 1, Index(s, sep)) ELSE s

\* The strings.Map of normalizePrimary: letters, digits and spaces stay.
KeepWordChars(s) == SelectSeq(s, LAMBDA c : c \in Letters \cup Digits \cup {" "})

\* strings.Join(strings.Fields(s), " "): runs of spaces become one space,
\* leading and trailing spaces go.
RECURSIVE CollapseSpaces(_)
CollapseSpaces(s) ==
    IF s = <<>> THEN <<>>
    ELSE IF Head(s) = " " THEN CollapseSpaces(Tail(s))
    ELSE LET rest == CollapseSpaces(Tail(s))
         IN  IF Len(s) > 1 /\ s[2] = " " /\ rest # <<>>
             THEN <<Head(s), " ">> \o rest
             ELSE <<Head(s)>> \o rest

\* A normalization that leaves the value as it is.
normalizeNothing(s) == s

\* normalizePrimary.
normalizePrimary(s) ==
    CollapseSpaces(KeepWordChars(
        CutAt(CutAt(CutAt(CutAt(ToLower(s), <<"(">>),
                          <<" ", "v", "i", "a", " ">>),
                    <<" ", "-", " ">>),
              <<" ", "-", "-", " ">>)))

\* The items of applyDiversityPenalty: the entries with a primary value.
Items(in, out) ==
    LET idxs == SelectSeq([i \in 1..Len(in) |-> i],
                          LAMBDA i : in[i].raw # <<>>)
    IN  [k \in 1..Len(idxs) |->
            [idx |-> idxs[k], rawValue |-> in[idxs[k]].raw,
             normValue |-> normalizePrimary(in[idxs[k]].raw),
             algoScore |-> out[idxs[k]].algo]]

\* groupBySimlarity: the groups, each with its items in input order; the
\* order of the groups is that of a map iteration, so they form a set.
groupBySimlarity(items) ==
    LET n == Len(items)
        parent == UnionPairs([i \in 1..n |-> i], items, 1, 2)
        root(i) == find(parent, i).root
    IN  { SelectSeq(items, LAMBDA it :
                       \E k \in 1..n : items[k] = it /\ root(k) = r) :
          r \in {root(i) : i \in 1..n} }

\* sort.Slice by key, descending.  The sort is not stable: entries with equal
\* keys come out in an order fixed by the implementation, either as they
\* were (ties = "first") or not (ties = "last").
RECURSIVE SortSlice(_, _)
SortSlice(group, ties) ==
    IF group = <<>> THEN <<>>
    ELSE LET n == Len(group)
             p == CHOOSE p \in 1..n : \A q \in 1..n :
                      \/ group[p].key > group[q].key
                      \/ /\ group[p].key = group[q].key
                         /\ IF ties = "first" THEN p <= q ELSE p >= q
         IN  <<group[p]>> \o
             SortSlice(SubSeq(group, 1, p - 1) \o SubSeq(group, p + 1, n), ties)

\* appendUnique(slice, s).
appendUnique(slice, str) ==
    IF \E k \in 1..Len(slice) : slice[k] = str THEN slice ELSE Append(slice, str)

\* outputs[idx].Penalty += penalty and the final score recomputed.
AddPenalty(o, penalty) ==
    [o EXCEPT !.penalty = @ + penalty, !.final = Max(0, o.algo + o.penalty + penalty)]

\* The penalties -25, -35, ...: those of the next rank.
penaltyOfNextRank(rank) == Max(-50, -15 - rank * 10)

\* The penalty applyDiversityPenalty gives to the entry at rank (0-based,
\* at least 1) of a sorted group: -15, -25, ..., not below -50.
penaltyOfRank(rank) == Max(-50, -15 - (rank - 1) * 10)

\* The penalty loop of applyDiversityPenalty over one sorted group, from
\* rank (0-based) on; the reason names the raw value of the best entry.
RECURSIVE PenalizeDuplicates(_, _, _)
PenalizeDuplicates(out, sorted, rank) ==
    IF rank >= Len(sorted) THEN out
    ELSE LET idx == sorted[rank + 1].idx
             penalty == penaltyOfRank(rank)
             o == AddPenalty(out[idx], penalty)
         IN  PenalizeDuplicates(
               [out EXCEPT ![idx] =
                   [o EXCEPT !.flags = appendUnique(@, "duplicate"),
                             !.reason = <<"Similar to higher-scored entry",
                                          sorted[1].rawValue>>]],
               sorted, rank + 1)

\* The entries of a group keyed for the sort.
Keyed(group) ==
    [k \in 1..Len(group) |->
        [idx |-> group[k].idx, rawValue |-> group[k].rawValue,
         key |-> group[k].algoScore]]

\* The loop of applyDiversityPenalty over the groups, in the given order.
RECURSIVE DiversityGroups(_, _, _)
DiversityGroups(out, groups, ties) ==
    IF groups = <<>> THEN out
    ELSE LET group == Head(groups)
             sorted == SortSlice(Keyed(group), ties)
         IN  DiversityGroups(IF Len(group) <= 1 THEN out
                             ELSE PenalizeDuplicates(out, sorted, 1),
                             Tail(groups), ties)

\* The orders in which a map iteration can yield a set of groups.
Orderings(S) ==
    {f \in [1..Cardinality(S) -> S] : \A i, j \in 1..Cardinality(S) : f[i] = f[j] => i = j}

\* The penalties 0, -5, ...: those of the rank before.
saturationOfRankBefore(rank) == Max(-30, -5 * (rank - 1))

\* The penalty applyThreadSaturation gives to the entry at rank (0-based) of
\* a sorted group: -5 * rank, not below -30.
saturationOfRank(rank) == Max(-30, -5 * rank)

\* The penalty loop of applyThreadSaturation over one sorted group.
RECURSIVE PenalizeSaturation(_, _, _)
PenalizeSaturation(out, sorted, rank) ==
    IF rank >= Len(sorted) THEN out
    ELSE LET idx == sorted[rank + 1].idx
         IN  PenalizeSaturation(
               [out EXCEPT ![idx] = AddPenalty(@, saturationOfRank(rank))],
               sorted, rank + 1)

\* threadGroups: for every thread the entries of it, in input order.
ThreadGroups(in, out) ==
    { SelectSeq([i \in 1..Len(in) |-> [idx |-> i, key |-> out[i].final]],
                LAMBDA g : in[g.idx].thread = t) :
      t \in {in[i].thread : i \in 1..Len(in)} }

\* The loop of applyThreadSaturation over the groups, in the given order.
RECURSIVE SaturationGroups(_, _, _)
SaturationGroups(out, groups, ties) ==
    IF groups = <<>> THEN out
    ELSE LET group == Head(groups)
         IN  SaturationGroups(IF Len(group) <= 1 THEN out
                              ELSE PenalizeSaturation(out, SortSlice(group, ties), 1),
                              Tail(groups), ties)

\* The loop over the thread groups left at the first group of one entry.
RECURSIVE SaturationUntilSingle(_, _, _)
SaturationUntilSingle(out, groups, ties) ==
    IF groups = <<>> \/ Len(Head(groups)) <= 1 THEN out
    ELSE SaturationUntilSingle(
            PenalizeSaturation(out, SortSlice(Head(groups), ties), 1),
            Tail(groups), ties)

\* applyThreadSaturation, the map yielding the thread groups in this order.
applyThreadSaturation(out, groups, ties) == SaturationGroups(out, groups, ties)

\* applyDiversityPenalty, the map yielding the clusters in this order.
applyDiversityPenalty(out, groups, ties) == DiversityGroups(out, groups, ties)

\* The model's penalty made non-positive, floored at -50, and at most -10
\* when the entry is flagged.
NormalizedPenalty(a) ==
    LET p1 == IF a.penalty > 0 THEN -a.penalty ELSE a.penalty
        p2 == IF p1 < -50 THEN -50 ELSE p1
    IN  IF p2 > -10 /\ Len(a.flags) > 0 THEN -10 ELSE p2

\* The body of the loop of AssessWithClaude for one assessment in range.
Assess(o, a) ==
    [o EXCEPT !.penalty = NormalizedPenalty(a),
              !.final = Max(0, o.algo + NormalizedPenalty(a)),
              !.flags = a.flags,
              !.reason = a.reason]

\* AssessWithClaude after a parsed response: the assessments applied in
\* order to a copy of the outputs; an index out of range is skipped.
RECURSIVE AssessWithClaude(_, _)
AssessWithClaude(out, as) ==
    IF as = <<>> THEN out
    ELSE LET a == Head(as)
         IN  AssessWithClaude(
               IF a.index < 0 \/ a.index >= Len(out) THEN out
               ELSE [out EXCEPT ![a.index + 1] = Assess(@, a)],
               Tail(as))

\* The error of the assessment handed on: no outputs.
NoOutputs(out) == <<>>

\* RankEntries when AssessWithClaude returned an error: `return outputs, nil`.
AssessmentFailed(out) == out

\* What the model can answer for one entry: a 0-based index (the last one is
\* never in range), flags, a penalty of any sign and size, a reason.
ModelPenalties == {-60, -5, 0, 20}
Assessments ==
    [index : 0..MaxRankEntries, flags : {<<>>, <<"spam">>},
     penalty : ModelPenalties, reason : {<<>>, <<"low quality">>}]
Responses == UNION { [1..n -> Assessments] : n \in 0..MaxAssessments }

\* State of the other specifications that the ranking leaves alone.
rankFrame == <<cfg, clock, disk, invocations, runsAllowed, pc, sessionDir,
               manifest, cancelled, cancelAt, result, pipeErr, wpc, witem,
               workCh, chClosed, fed, feedQ, totalFed, done, extractedCnt,
               processed, round, remaining, posts, roundTarget, waitExit,
               dirty, saver, pushes, discoveries, startStatus, saveVars, itemVars,
               subVars,
               muVars>>

\* RankEntries, step 1.
ScoreStep ==
    /\ rankPc = "score"
    /\ outputs' = ScoreAlgorithmic(inputs)
    /\ rankPc' = "diversity"
    /\ UNCHANGED <<inputs, sortTies, assessments, ranked, written, runLog, rankFrame>>

\* RankEntries, step 2: the groups are penalized in the order of the map.
DiversityStep ==
    /\ rankPc = "diversity"
    /\ \E groups \in Orderings(groupBySimlarity(Items(inputs, outputs))) :
          outputs' = applyDiversityPenalty(outputs, groups, sortTies)
    /\ rankPc' = "saturation"
    /\ UNCHANGED <<inputs, sortTies, assessments, ranked, written, runLog, rankFrame>>

\* RankEntries, step 3.
SaturationStep ==
    /\ rankPc = "saturation"
    /\ \E groups \in Orderings(ThreadGroups(inputs, outputs)) :
          outputs' = applyThreadSaturation(outputs, groups, sortTies)
    /\ rankPc' = "assess"
    /\ UNCHANGED <<inputs, sortTies, assessments, ranked, written, runLog, rankFrame>>

\* RankEntries, step 4, with a response that parses.
AssessStep ==
    /\ rankPc = "assess"
    /\ \E as \in Responses :
          /\ assessments' = [ok |-> TRUE, list |-> as]
          /\ ranked' = AssessWithClaude(outputs, as)
    /\ rankPc' = "write"
    /\ UNCHANGED <<inputs, sortTies, outputs, written, runLog, rankFrame>>

\* RankEntries, step 4, when rendering, the model call or the parsing fails:
\* the outputs are returned with a nil error.
AssessFail ==
    /\ rankPc = "assess"
    /\ assessments' = NoResponse
    /\ ranked' = AssessmentFailed(outputs)
    /\ rankPc' = "write"
    /\ UNCHANGED <<inputs, sortTies, outputs, written, runLog, rankFrame>>

\* rankEntries: the scores are written to the entries; flags and reason only
\* when not empty.
WriteBack ==
    /\ rankPc = "write"
    /\ written' = [i \in 1..Len(ranked) |->
                     [hasScore |-> TRUE,
                      score |-> ranked[i].final,
                      flags |-> IF Len(ranked[i].flags) > 0 THEN ranked[i].flags
                                ELSE written[i].flags,
                      reason |-> IF ranked[i].reason # <<>> THEN ranked[i].reason
                                 ELSE written[i].reason]]
    /\ rankPc' = "complete"
    /\ UNCHANGED <<inputs, sortTies, outputs, assessments, ranked, runLog, rankFrame>>

\* Run after Phase 4: CompleteRun(manifest, "completed").
RankComplete ==
    /\ rankPc = "complete"
    /\ runLog' = "completed"
    /\ rankPc' = "done"
    /\ UNCHANGED <<inputs, sortTies, outputs, assessments, ranked, written, rankFrame>>

\* One rankEntries call of a run: any list of inputs, grouped by thread.
InitRank ==
    /\ cfg = [Limit |-> 1, Workers |-> 1, evaluator |-> TRUE, ranker |-> TRUE]
    /\ runsAllowed = MaxRuns
    /\ clock = 0
    /\ disk = [dir |-> <<>>, file |-> NoManifest]
    /\ invocations = 0
    /\ pc = "idle"
    /\ result = NoResult
    /\ ProcessReset
    /\ SaveReset
    /\ MuReset
    /\ rankPc = "score"
    /\ inputs \in InputLists
    /\ sortTies \in {"first", "last"}
    /\ outputs = <<>>
    /\ assessments = NoResponse
    /\ ranked = <<>>
    /\ written = [i \in 1..Len(inputs) |-> NoRank]
    /\ runLog = "running"
    /\ ItemReset
    /\ SubReset

NextRank ==
    \/ ScoreStep
    \/ DiversityStep
    \/ SaturationStep
    \/ AssessStep
    \/ AssessFail
    \/ WriteBack
    \/ RankComplete

SpecRank == InitRank /\ [][NextRank]_vars

(* --------------------------------- C14 --------------------------------- *)

\* RankEntries has returned the outputs of a successful assessment.
Assessed == rankPc \in {"write", "complete", "done"} /\ assessments.ok

\* The positions (1-based) of the entries the response assesses, and the
\* assessment that counts for one of them: the last in the response.
AssessedEntries ==
    { a.index + 1 : a \in { assessments.list[k] : k \in 1..Len(assessments.list) } }
        \cap (1..Len(outputs))
LastAssessment(i) ==
    LET as == assessments.list
        k == CHOOSE k \in 1..Len(as) :
                /\ as[k].index + 1 = i
                /\ \A l \in (k + 1)..Len(as) : as[l].index + 1 # i
    IN  as[k]

\* C14: the assessment accumulates: for every assessed entry the penalty
\* after the assessment is the penalty of the diversity and saturation stages
\* plus the normalized model penalty, and the final score is
\* max(0, algo score + that total).
C14_PenaltiesAccumulate ==
    Assessed =>
        \A i \in AssessedEntries :
            LET total == outputs[i].penalty + NormalizedPenalty(LastAssessment(i))
            IN  /\ ranked[i].penalty = total
                /\ ranked[i].final = Max(0, ranked[i].algo + total)

(* --------------------------------- C15 --------------------------------- *)

\* The elements of a slice.
Elems(slice) == {slice[k] : k \in 1..Len(slice)}

\* All flags the response gives to the entry at position i.
ModelFlags(i) ==
    UNION { Elems(assessments.list[k].flags) :
            k \in {l \in 1..Len(assessments.list) : assessments.list[l].index + 1 = i} }

\* C15: after the assessment the flags of an assessed entry are the union of
\* the model's flags and the flags the diversity and saturation stages set;
\* an entry flagged duplicate stays flagged duplicate.
C15_FlagsUnion ==
    Assessed =>
        \A i \in AssessedEntries :
            Elems(ranked[i].flags) = Elems(outputs[i].flags) \cup ModelFlags(i)

(* --------------------------------- C16 --------------------------------- *)

\* C16: every rank_score written to a manifest entry lies in [0, 100],
\* whatever the inputs and the model's penalties; so does every final score
\* the stages compute on the way.
C16_RankScoreInRange ==
    /\ \A i \in 1..Len(written) :
          written[i].hasScore => written[i].score \in 0..100
    /\ \A i \in 1..Len(outputs) : outputs[i].final \in 0..100
    /\ \A i \in 1..Len(ranked) : ranked[i].final \in 0..100

\* Scores were written after the model answered with a positive penalty: an
\* entry whose weighted sum exceeds 100 got the score 100, another entry 0.
C16_Witness ==
    /\ rankPc = "done"
    /\ assessments.ok
    /\ \E k \in 1..Len(assessments.list) : assessments.list[k].penalty > 0
    /\ \E i, j \in 1..Len(written) :
          /\ inputs[i].confidence = 300
          /\ written[i].hasScore /\ written[i].score = 100
          /\ written[j].hasScore /\ written[j].score = 0

(* --------------------------------- C17 --------------------------------- *)

\* The diversity stage has run and no later stage yet: an entry's penalty is
\* its diversity penalty.
AfterDiversity == rankPc = "saturation"

\* The clusters of the call, as sets of input positions.
Clusters ==
    { {g[k].idx : k \in 1..Len(g)} : g \in groupBySimlarity(Items(inputs, outputs)) }

\* The entry of a cluster with the highest algorithmic score, the earliest
\* in input order among equals.
Winner(c) ==
    CHOOSE i \in c : \A j \in c :
        \/ outputs[i].algo > outputs[j].algo
        \/ outputs[i].algo = outputs[j].algo /\ i <= j

\* C17: in every diversity cluster of more than one entry exactly one entry
\* is left unpenalized, the one with the highest algorithmic score, and
\* among several with the highest score the one with the lowest input index.
C17_ClusterWinner ==
    AfterDiversity =>
        \A c \in Clusters :
            Cardinality(c) > 1 =>
                {i \in c : outputs[i].penalty = 0} = {Winner(c)}

(* --------------------------------- C18 --------------------------------- *)

\* The items reachable from the items S by chains of pairwise similar items.
RECURSIVE Chained(_, _)
Chained(items, S) ==
    LET T == S \cup {j \in 1..Len(items) :
                        \E i \in S : areSimilar(items[i].normValue, items[j].normValue)}
    IN  IF T = S THEN S ELSE Chained(items, T)

\* The connected components of the similarity relation, as sets of input
\* positions.
Components ==
    LET items == Items(inputs, outputs)
    IN  { {items[k].idx : k \in Chained(items, {i})} : i \in 1..Len(items) }

\* C18: the clusters of groupBySimlarity are exactly the connected components
\* of the similarity relation: entries linked by a chain of pairwise similar
\* entries share a cluster, and only those do.
C18_ClustersAreComponents ==
    rankPc \in {"diversity", "saturation"} => Clusters = Components

\* The diversity stage ran on a cluster of three entries two of which are
\* not similar to each other; the third links them.
C18_Witness ==
    /\ AfterDiversity
    /\ \E c \in Clusters :
          /\ Cardinality(c) = 3
          /\ \E i, j \in c :
                ~areSimilar(normalizePrimary(inputs[i].raw),
                            normalizePrimary(inputs[j].raw))

(* --------------------------------- C19 --------------------------------- *)

\* One fixed order of a set of groups.
SomeOrder(S) == CHOOSE f \in Orderings(S) : TRUE

\* The outputs of the three algorithmic stages computed from the inputs
\* alone, the maps yielding their groups in a fixed order.
StagesOf(in, ties) ==
    LET scoredOut == ScoreAlgorithmic(in)
        diverse == applyDiversityPenalty(scoredOut,
                       SomeOrder(groupBySimlarity(Items(in, scoredOut))), ties)
    IN  applyThreadSaturation(diverse, SomeOrder(ThreadGroups(in, diverse)), ties)

\* What RankEntries returns as a function of the outputs and the response.
ReturnOf(out, resp) == IF resp.ok THEN AssessWithClaude(out, resp.list) ELSE out

\* C19: rank determinism: the outputs of RankEntries (scores, penalties,
\* flags, reasons) are a function of the ordered inputs and the model's
\* response, in whatever order the maps yield clusters and thread groups and
\* also when entries tie inside a cluster or a thread group; so two
\* executions on the same inputs with the same response agree.
C19_RankDeterminism ==
    /\ rankPc = "assess" => outputs = StagesOf(inputs, sortTies)
    /\ rankPc \in {"write", "complete", "done"} =>
          ranked = ReturnOf(outputs, assessments)

\* An execution with two clusters and two thread groups, and a tie inside a
\* cluster of one thread, has returned.
C19_Witness ==
    /\ rankPc = "write"
    /\ Cardinality(Clusters) = 2
    /\ Cardinality(ThreadGroups(inputs, outputs)) = 2
    /\ \E c \in Clusters : \E i, j \in c :
          /\ i # j
          /\ outputs[i].algo = outputs[j].algo
          /\ inputs[i].thread = inputs[j].thread

(* --------------------------------- C20 --------------------------------- *)

\* RankEntries has returned after the assessment failed.
FellBack == rankPc \in {"write", "complete", "done"} /\ ~assessments.ok

\* C20: when the assessment fails RankEntries returns the outputs of the
\* algorithmic, diversity and saturation stages unchanged (final score
\* max(0, algo + diversity + saturation penalty), flags intact); rankEntries
\* writes them to the entries and the run finishes as completed.
C20_FallbackKeepsStages ==
    FellBack =>
        /\ ranked = outputs
        /\ \A i \in 1..Len(ranked) :
              ranked[i].final = Max(0, ranked[i].algo + ranked[i].penalty)
        /\ rankPc \in {"complete", "done"} =>
              /\ Len(written) = Len(inputs)
              /\ \A i \in 1..Len(inputs) :
                    /\ written[i].hasScore
                    /\ written[i].score = outputs[i].final
                    /\ written[i].flags = outputs[i].flags
        /\ rankPc = "done" => runLog = "completed"

\* The assessment failed and the run completed: an entry that is a duplicate
\* and the second of its thread was written with its score less 20 and
\* flagged duplicate.
C20_Witness ==
    /\ FellBack
    /\ rankPc = "done"
    /\ runLog = "completed"
    /\ \E i \in 1..Len(written) :
          /\ outputs[i].penalty = -20
          /\ outputs[i].algo > 20
          /\ written[i].score = outputs[i].algo - 20
          /\ written[i].flags = <<"duplicate">>

\* ---------------------------------------------------------------------------
\* Extraction results in the manifest (UpdateThreadEntries, the worker's
\* extraction step)
\* ---------------------------------------------------------------------------

\* C21: every thread whose status is extracted or ranked has at least one
\* entry, also when the extractor returned no entries for it.
C21_ExtractedHasEntries ==
    \A i \in 1..Len(manifest.threads) :
        manifest.threads[i].status \in {"extracted", "ranked"}
            => manifest.threads[i].entries > 0

(* ------------------ a worker's body for one work item ------------------ *)
(* Lines 318-434 of runPipeline with EvaluateThread, loadThreadForExtraction
   and the extractor's parseResponse followed call by call for one item,
   over the files of the session directory. *)

MaxPayloadPost == 2
MaxEntryFields == 2
MaxRespEntries == 1

\* const maxAttempts of EvaluateThread.
maxAttempts == 2

\* Field ids of the forms and of the extractor's responses; "rating" is a
\* field of no form.
Forms == {<<"name">>, <<"name", "price">>}
ResponseIDs == {"name", "price", "rating"}

FormIDs(fm) == {fm[i] : i \in 1..Len(fm)}

\* What thread_<postid>.json can hold: bytes that do not parse, or a thread
\* of any post, with or without id and permalink.
ThreadPayloads ==
    {NoPayload} \cup [parses : {TRUE}, id : 0..MaxPayloadPost, permalink : BOOLEAN]

ThreadFiles == {NoThreadFile} \cup [exists : {TRUE}, data : ThreadPayloads]

Verdicts == {"keep", "skip"}

\* What eval_<postid>.json can hold when written during attempt `by`
\* (0: before this call of EvaluateThread): bytes that do not parse, or a
\* verdict with the agent's thread_saved.
EvalFiles(by) ==
    {[exists |-> TRUE, by |-> by, parses |-> FALSE, verdict |-> "", saved |-> FALSE]}
    \cup [exists : {TRUE}, by : {by}, parses : {TRUE}, verdict : Verdicts,
          saved : BOOLEAN]

\* os.Remove of the eval file and of the thread file.
KeepFile(f) == f
RemoveEval(f) == NoEvalFile
RemoveThread(f) == NoThreadFile

\* parseThreadJSON: nil error.
parseThreadJSON(data) ==
    /\ data.parses
    /\ data.id # 0
    /\ data.permalink

\* validateThreadFile: nil error.
validateThreadFile(file, expectedPostID) ==
    /\ file.exists
    /\ file.data.parses
    /\ file.data.id # 0
    /\ file.data.permalink
    /\ expectedPostID # 0 => file.data.id = expectedPostID

\* The thread searcher.GetThread returns for the permalink of a thread
\* state, and the file json.MarshalIndent and os.WriteFile make of it.
GetThread(ts) == [parses |-> TRUE, id |-> ts.id, permalink |-> ts.permalink]
WriteThread(thread) == [exists |-> TRUE, data |-> thread]

\* The entries the model's response can hold: each a list of field ids.
EntryFields == UNION {[1..n -> ResponseIDs] : n \in 0..MaxEntryFields}
ResponseEntries == UNION {[1..n -> EntryFields] : n \in 0..MaxRespEntries}

\* The texts the runner returns to the extractor: no JSON in them, or JSON
\* with entries.
ExtractorTexts ==
    {[json |-> FALSE, entries |-> <<>>]}
    \cup [json : {TRUE}, entries : ResponseEntries]

\* ClaudeExtractor.parseResponse: every entry and every field of the
\* response is copied; the form is not consulted.
parseResponse(response, fm) ==
    [err |-> IF response.json THEN "" ELSE "extracting JSON",
     entries |->
        [i \in 1..Len(response.entries) |->
            [fields |->
                [j \in 1..Len(response.entries[i]) |->
                    [id |-> response.entries[i][j]]]]]]

itemFrame == <<cfg, clock, disk, invocations, runsAllowed, pc, sessionDir,
               cancelled, cancelAt, result, pipeErr, pipeVars, saveVars,
               rankVars, subVars, muVars>>

\* The thread of the item as the manifest holds it when a worker receives
\* the item: pending when it came from a discovery round, collected when it
\* came from the resume feed. Its Entries are a list here.
ItemThread(it) ==
    [NewThreadState(it.id) EXCEPT
        !.entries = <<>>,
        !.status = IF it.needsEval THEN "pending" ELSE "collected"]

\* Lines 304-318 and 444-450, 531-560: a thread of the manifest was fed and
\* a worker received its item.
ItemReceive ==
    /\ itemPc = "off"
    /\ manifest = NewManifest
    /\ \E it \in [id : {1}, permalink : {TRUE}, needsEval : BOOLEAN] :
          /\ item' = it
          /\ manifest' = AddThread(manifest, ItemThread(it))
    /\ itemPc' = "start"
    /\ UNCHANGED <<form, threadFile, evalFile, attempt, agentRuns, lastErr,
                   evalResult, payload, extractorCalls, itemFrame>>

\* Lines 318-333 and 405: the worker starts the item.
ItemStart ==
    /\ itemPc = "start"
    /\ IF item.needsEval
       THEN IF cfg.evaluator
            THEN /\ itemPc' = "remove"
                 /\ attempt' = 1
            ELSE /\ itemPc' = "fetch"
                 /\ UNCHANGED attempt
       ELSE /\ itemPc' = "load"
            /\ UNCHANGED attempt
    /\ UNCHANGED <<item, form, threadFile, evalFile, agentRuns, lastErr,
                   evalResult, payload, extractorCalls, manifest, itemFrame>>

\* EvaluateThread, lines 383-384.
EvalRemove ==
    /\ itemPc = "remove"
    /\ evalFile' = RemoveEval(evalFile)
    /\ threadFile' = RemoveThread(threadFile)
    /\ itemPc' = "agent"
    /\ UNCHANGED <<item, form, attempt, agentRuns, lastErr, evalResult,
                   payload, extractorCalls, manifest, itemFrame>>

\* An attempt that failed, lines 388-392 and 398-402: the next attempt, or
\* the error is returned.
AttemptFailed(msg) ==
    /\ lastErr' = [msg |-> msg, attempt |-> attempt]
    /\ IF attempt < maxAttempts
       THEN /\ attempt' = attempt + 1
            /\ itemPc' = "remove"
            /\ UNCHANGED evalResult
       ELSE /\ evalResult' = [NoEval EXCEPT !.returned = TRUE, !.err = lastErr']
            /\ itemPc' = "evaldone"
            /\ UNCHANGED attempt

\* EvaluateThread, lines 386-393: the agent runs; it may write either file
\* with any content, and the run may fail.
EvalAgent ==
    /\ itemPc = "agent"
    /\ agentRuns' = agentRuns + 1
    /\ \E e \in EvalFiles(attempt) \cup {evalFile},
          t \in (ThreadFiles \ {NoThreadFile}) \cup {threadFile},
          failed \in BOOLEAN :
            /\ evalFile' = e
            /\ threadFile' = t
            /\ IF failed
               THEN AttemptFailed("running agent")
               ELSE /\ itemPc' = "parse"
                    /\ UNCHANGED <<attempt, lastErr, evalResult>>
    /\ UNCHANGED <<item, form, payload, extractorCalls, manifest, itemFrame>>

\* EvaluateThread, lines 396-413, with parseEvalFile and validateThreadFile.
EvalParse ==
    /\ itemPc = "parse"
    /\ IF ~(evalFile.exists /\ evalFile.parses)
       THEN AttemptFailed("reading eval output")
       ELSE /\ evalResult' =
                   [returned |-> TRUE, err |-> NoErr, verdict |-> evalFile.verdict,
                    by |-> evalFile.by,
                    threadSaved |->
                        IF /\ evalFile.verdict = "keep"
                           /\ ~validateThreadFile(threadFile, item.id)
                        THEN FALSE
                        ELSE evalFile.saved]
            /\ itemPc' = "evaldone"
            /\ UNCHANGED <<attempt, lastErr>>
    /\ UNCHANGED <<item, form, threadFile, evalFile, agentRuns, payload,
                   extractorCalls, manifest, itemFrame>>

\* The worker after EvaluateThread, lines 335-362.
EvalHandle ==
    /\ itemPc = "evaldone"
    /\ IF evalResult.err # NoErr
       THEN /\ manifest' = MarkThreadFailed(manifest, item.id, "evaluation failed")
            /\ itemPc' = "done"
       ELSE IF evalResult.verdict # "keep"
            THEN /\ manifest' = UpdateThreadStatus(manifest, item.id, "skipped")
                 /\ itemPc' = "done"
            ELSE /\ manifest' = MarkCollected(manifest, item.id)
                 /\ itemPc' = "load"
    /\ UNCHANGED <<item, form, threadFile, evalFile, attempt, agentRuns, lastErr,
                   evalResult, payload, extractorCalls, itemFrame>>

\* The worker without an evaluator, lines 365-401.
FetchDirect ==
    /\ itemPc = "fetch"
    /\ \/ /\ manifest' = MarkThreadFailed(manifest, item.id, "thread fetch failed")
          /\ itemPc' = "done"
          /\ UNCHANGED threadFile
       \/ /\ manifest' = MarkThreadFailed(manifest, item.id, "thread write failed")
          /\ itemPc' = "done"
          /\ threadFile' \in {threadFile, WriteThread(NoPayload)}
       \/ /\ threadFile' = WriteThread(GetThread(item))
          /\ manifest' = MarkCollected(manifest, item.id)
          /\ itemPc' = "load"
    /\ UNCHANGED <<item, form, evalFile, attempt, agentRuns, lastErr, evalResult,
                   payload, extractorCalls, itemFrame>>

\* loadThreadForExtraction and the worker's lines 406-414: the file when it
\* reads and parses, else the refetched thread, rewritten.
LoadThread ==
    /\ itemPc = "load"
    /\ IF threadFile.exists /\ parseThreadJSON(threadFile.data)
       THEN /\ payload' = threadFile.data
            /\ itemPc' = "extract"
            /\ UNCHANGED <<threadFile, manifest>>
       ELSE \/ /\ manifest' = MarkThreadFailed(manifest, item.id, "refetch failed")
               /\ itemPc' = "done"
               /\ UNCHANGED <<threadFile, payload>>
            \/ /\ manifest' = MarkThreadFailed(manifest, item.id,
                                               "writing canonical thread JSON")
               /\ itemPc' = "done"
               /\ threadFile' \in {threadFile, WriteThread(NoPayload)}
               /\ UNCHANGED payload
            \/ /\ threadFile' = WriteThread(GetThread(item))
               /\ payload' = GetThread(item)
               /\ itemPc' = "extract"
               /\ UNCHANGED manifest
    /\ UNCHANGED <<item, form, evalFile, attempt, agentRuns, lastErr, evalResult,
                   extractorCalls, itemFrame>>

\* extractSingle and the worker's lines 416-432: the extractor runs the
\* model on the payload, parses the text and the entries are stored.
Extract ==
    /\ itemPc = "extract"
    /\ extractorCalls' = extractorCalls + 1
    /\ \/ manifest' = MarkThreadFailed(manifest, item.id, "extraction failed")
       \/ \E text \in ExtractorTexts :
            LET parsed == parseResponse(text, form) IN
            manifest' = IF parsed.err # ""
                        THEN MarkThreadFailed(manifest, item.id, "extraction failed")
                        ELSE UpdateThreadEntries(manifest, item.id, parsed.entries)
    /\ itemPc' = "done"
    /\ UNCHANGED <<item, form, threadFile, evalFile, attempt, agentRuns, lastErr,
                   evalResult, payload, itemFrame>>

\* A session before a worker receives an item; the session directory may
\* hold the item's files of an earlier run.
InitItem ==
    /\ cfg \in [Limit : {1}, Workers : {1}, evaluator : BOOLEAN, ranker : {TRUE}]
    /\ runsAllowed = MaxRuns
    /\ clock = 0
    /\ disk = [dir |-> <<>>, file |-> NoManifest]
    /\ invocations = 0
    /\ pc = "idle"
    /\ result = NoResult
    /\ ProcessReset
    /\ SaveReset
    /\ MuReset
    /\ RankReset
    /\ itemPc = "off"
    /\ item = [id |-> 0, permalink |-> FALSE, needsEval |-> FALSE]
    /\ form \in Forms
    /\ threadFile \in ThreadFiles
    /\ evalFile \in EvalFiles(0) \cup {NoEvalFile}
    /\ attempt = 0
    /\ agentRuns = 0
    /\ lastErr = NoErr
    /\ evalResult = NoEval
    /\ payload = NoPayload
    /\ extractorCalls = 0
    /\ SubReset

NextItem ==
    \/ ItemReceive
    \/ ItemStart
    \/ EvalRemove
    \/ EvalAgent
    \/ EvalParse
    \/ EvalHandle
    \/ FetchDirect
    \/ LoadThread
    \/ Extract

SpecItem == InitItem /\ [][NextItem]_vars

\* C22: every FieldValue stored in the manifest has the id of a field of the
\* session form, whatever ids the extractor's response holds.
C22_FieldIdsOfForm ==
    \A i \in 1..Len(manifest.threads) :
        \A e \in 1..Len(manifest.threads[i].entries) :
            \A f \in 1..Len(manifest.threads[i].entries[e].fields) :
                manifest.threads[i].entries[e].fields[f].id \in FormIDs(form)

\* The item's thread in the manifest.
ItemState == manifest.threads[FindThreadIndex(manifest, item.id)]

\* C23: the extractor is only invoked with a payload that parses, has a
\* post id and a permalink, and is the thread of the work item's post; a
\* thread file that is missing, malformed or of another post is refetched
\* and rewritten first, and when the refetch fails the thread is failed and
\* the extractor is not called.
C23_ExtractorPayloadValid ==
    /\ (itemPc = "extract" \/ extractorCalls > 0) =>
          /\ payload.parses
          /\ payload.id # 0
          /\ payload.permalink
          /\ payload.id = item.id
          /\ threadFile = WriteThread(payload)
    /\ (itemPc = "done" /\ ItemState.error = "refetch failed") =>
          /\ ItemState.status = "failed"
          /\ extractorCalls = 0

\* C30: EvaluateThread runs the agent at most twice per thread; the eval file
\* and the thread file are removed before each attempt, so the verdict it
\* returns was written during the attempt that returned it; the second
\* attempt is made only when the first failed in the agent run or in reading
\* and parsing the eval file, and after two failed attempts the error is
\* returned.
C30_EvaluateAtMostTwice ==
    /\ agentRuns <= 2
    /\ agentRuns <= attempt
    /\ itemPc = "agent" => (~evalFile.exists /\ ~threadFile.exists)
    /\ (evalResult.returned /\ evalResult.err = NoErr) =>
          /\ evalResult.by = attempt
          /\ evalResult.by >= 1
          /\ evalFile.exists /\ evalFile.parses
          /\ evalResult.verdict = evalFile.verdict
    /\ attempt = 2 =>
          /\ lastErr.attempt >= 1
          /\ lastErr.msg \in {"running agent", "reading eval output"}
    /\ lastErr.attempt = 2 =>
          /\ evalResult.returned
          /\ evalResult.err = lastErr
    /\ (evalResult.returned /\ evalResult.err # NoErr) =>
          /\ agentRuns = 2
          /\ lastErr.attempt = 2

\* The first attempt failed and the second returned a keep verdict the agent
\* wrote during the second attempt.
C30_Witness ==
    /\ itemPc = "evaldone"
    /\ attempt = 2
    /\ agentRuns = 2
    /\ lastErr.attempt = 1
    /\ evalResult.returned
    /\ evalResult.err = NoErr
    /\ evalResult.verdict = "keep"
    /\ evalResult.by = 2

\* ---------------------------------------------------------------------------
\* The round loop: circuit breaker, early stop, discovery rounds
\* ---------------------------------------------------------------------------

\* The threads fed to the work channel in this run.
FedThreads == {i \in 1..Len(manifest.threads) : manifest.threads[i].id \in fed}

\* The circuit breaker broke out of the round loop in this step.
BreakerFires == pc = "breaker" /\ pc' = "close"

\* C24: the circuit breaker aborts the rounds only after round 0, when every
\* fed thread has completed its item, none was extracted and all of them are
\* failed or skipped; it does not fire while a worker is evaluating or
\* extracting a fed thread.
C24_BreakerAfterCompletion ==
    [][BreakerFires =>
          /\ round = 0
          /\ extractedCnt = 0
          /\ Busy = {}
          /\ \A i \in FedThreads :
                manifest.threads[i].status \in {"failed", "skipped"}]_vars

\* Worker w returned from its loop in this step because the goal was met.
EarlyStop(w) ==
    /\ wpc[w] = "recv"
    /\ wpc'[w] = "exited"
    /\ ~cancelled
    /\ HaveEnough(manifest)

\* C25: a worker that finds extracted+ranked >= L before starting an item
\* returns without consuming from the work channel: it starts no evaluation
\* or extraction once the goal is met, and it takes no item out of the
\* channel that it does not process.
C25_EarlyStopConsumesNothing ==
    [][\A w \in Workers :
          /\ (wpc[w] = "recv" /\ wpc'[w] \in {"eval", "extract"})
                => ~HaveEnough(manifest)
          /\ EarlyStop(w) => workCh' = workCh]_vars

\* C26: a run makes at most 3 calls of thread discovery, one per round at
\* most, and none in a round at whose start extracted+ranked >= L.
C26_AtMostThreeDiscoveries ==
    /\ [](discoveries <= 3)
    /\ [](pc \in {"count", "discover"} => round < 3)
    /\ [][/\ discoveries' > discoveries =>
                /\ pc = "discover"
                /\ discoveries' = discoveries + 1
                /\ discoveries <= round
          /\ (pc = "roundCheck" /\ HaveEnough(manifest)) =>
                /\ pc' \notin {"count", "discover"}
                /\ discoveries' <= discoveries
          /\ pc' = "discover" => pc \in {"count", "discover"}
          /\ pc' = "count" => pc \in {"roundCheck", "count"}]_vars

\* The third round of a run has made the run's third discovery call.
C26_Witness ==
    /\ discoveries = 3
    /\ round = 2
    /\ pc = "feedCollect"

(* ---------------- discovery and append over any manifest --------------- *)
(* Lines 479-529 of a round applied to manifests of every shape, with a
   discoverer that may return more posts than it was asked for, while a
   worker finishes the item it holds. *)

MaxAppendLimit == 2
MaxAppendThreads == 3
MaxFound == 4
MaxFoundPost == 6

Statuses == {"pending", "collected", "extracted", "ranked", "skipped", "failed"}

\* The thread of a post in a status: with an entry once extracted, with its
\* error when failed.
ThreadIn(postID, status) ==
    [NewThreadState(postID) EXCEPT
        !.status = status,
        !.entries = IF status \in {"extracted", "ranked"} THEN 1 ELSE 0,
        !.scored = IF status = "ranked" THEN 1 ELSE 0,
        !.error = IF status = "failed" THEN ErrTransport ELSE ""]

\* Manifests whose threads are posts 1..n in any status.
AppendManifests ==
    UNION {
        { [NewManifest EXCEPT !.threads = [i \in 1..n |-> ThreadIn(i, st[i])]] :
          st \in [1..n -> Statuses] } :
        n \in 0..MaxAppendThreads }

\* What findThreads can return: posts old and new, in any number and order
\* (here increasing ids, a post possibly twice in a row).
RECURSIVE NonDecreasing(_)
NonDecreasing(s) ==
    Len(s) < 2 \/ (s[1] <= s[2] /\ NonDecreasing(Tail(s)))

AnyPosts ==
    UNION {{s \in [1..n -> 1..MaxFoundPost] : NonDecreasing(s)} : n \in 0..MaxFound}

\* The worker of a running pipeline: waiting for an item, or holding the
\* item of a pending thread (evaluating) or of a collected one (extracting).
AppendWorkers(m) ==
    {[pos |-> "recv", item |-> NoItem]}
    \cup {[pos |-> "eval", item |-> [id |-> m.threads[i].id, needsEval |-> TRUE]] :
            i \in {j \in 1..Len(m.threads) : m.threads[j].status = "pending"}}
    \cup {[pos |-> "extract", item |-> [id |-> m.threads[i].id, needsEval |-> FALSE]] :
            i \in {j \in 1..Len(m.threads) : m.threads[j].status = "collected"}}

\* Run over a session of any shape has reached line 479 of a round, its
\* worker somewhere in its loop.
AppendEnter ==
    /\ pc = "idle"
    /\ invocations = 0
    /\ invocations' = 1
    /\ \E m \in AppendManifests :
          /\ manifest' = m
          /\ \E wk \in AppendWorkers(m) :
                /\ wpc' = [wpc EXCEPT ![1] = wk.pos]
                /\ witem' = [witem EXCEPT ![1] = wk.item]
    /\ pc' = "count"
    /\ UNCHANGED <<cfg, clock, runsAllowed, sessionDir, result, auxVars, disk,
                   cancelled, cancelAt, pipeErr, workCh, chClosed, fed, feedQ,
                   totalFed, done, extractedCnt, processed, round, remaining,
                   posts, roundTarget, waitExit, dirty, saver, pushes,
                   discoveries,
                   startStatus>>

InitAppend ==
    /\ cfg \in [Limit : 1..MaxAppendLimit, Workers : {1}, evaluator : {TRUE},
                ranker : {TRUE}]
    /\ runsAllowed = 1
    /\ clock = 0
    /\ disk = [dir |-> <<>>, file |-> NoManifest]
    /\ invocations = 0
    /\ pc = "idle"
    /\ result = NoResult
    /\ ProcessReset
    /\ SaveReset
    /\ MuReset
    /\ RankReset
    /\ ItemReset
    /\ SubReset

NextAppend ==
    \/ AppendEnter
    \/ DiscoverCount
    \/ DiscoverFail
    \/ DiscoverAddFrom(AnyPosts)
    \/ WorkerEval(1)
    \/ WorkerExtract(1)

SpecAppend == InitAppend /\ [][NextAppend]_vars

\* In this step the round appended the posts of a discovery call.
Appended == pc = "discover" /\ pc' = "feedCollect"

\* C27: discovery is called only with remaining = 3*L - actionable > 0, and
\* the append adds at most `remaining` threads, so right after it the
\* actionable count is at most max(3*L, the actionable count before it),
\* however many posts the discoverer returned.
C27_AppendBounded ==
    /\ [](pc = "discover" =>
            /\ remaining > 0
            /\ remaining <= 3 * cfg.Limit - Actionable(manifest))
    /\ [][/\ (pc = "count" /\ pc' = "discover") =>
                remaining' = 3 * cfg.Limit - Actionable(manifest)
          /\ (pc = "count" /\ pc' = "feedCollect") =>
                /\ 3 * cfg.Limit - Actionable(manifest) <= 0
                /\ discoveries' = discoveries
          /\ discoveries' > discoveries => pc = "discover"
          /\ Appended =>
                /\ Len(manifest'.threads) - Len(manifest.threads) <= remaining
                /\ Actionable(manifest')
                       <= Max(3 * cfg.Limit, Actionable(manifest))]_vars

\* The discoverer was asked for one post and returned four new ones; one
\* was appended and the manifest holds 3*L actionable threads.
C27_Witness ==
    /\ pc = "feedCollect"
    /\ discoveries = 1
    /\ Len(posts) = 4
    /\ \A i \in 1..4 : ~FindThread(manifest, posts[i]) \/ posts[i] = posts[1]
    /\ posts[1] # posts[4]
    /\ Actionable(manifest) = 3 * cfg.Limit
    /\ Len(manifest.threads) = MaxAppendThreads + 1

(* ------------------- Run around Phase 0, run by run -------------------- *)
(* Lines 79-143 of Run and the communities the pipeline then searches
   (searchDirect), over the runs of one session with a non-empty query. *)

MaxSubRuns == 3

\* config.Subreddits as a caller can supply it, and the lists the subreddit
\* discoverer can find.
ExplicitLists == {<<>>, <<"travel">>}
DiscoveredLists == {<<"familytravel">>, <<"familytravel", "solotravel">>}

\* A Phase 0 that never reuses the stored list.
NeverReusable(m) == FALSE

\* Run, line 116: the manifest holds a discovered list.
Reusable(m) == m.discovered /\ Len(m.subreddits) > 0

\* A Phase 0 that marks the manifest discovered whatever the discoverer
\* returned.
AlwaysDiscovered(m, outcome, found) ==
    [m EXCEPT !.subreddits = found, !.discovered = TRUE]

\* Run, lines 125-135: the manifest after DiscoverSubreddits returned.
AfterDiscovery(m, outcome, found) ==
    IF outcome = "found"
    THEN [m EXCEPT !.subreddits = found, !.discovered = TRUE]
    ELSE m

\* searchDirect, lines 680-689 and 697: the communities searched.
SearchTargets(subreddits) ==
    IF Len(subreddits) = 0 THEN <<"all">> ELSE subreddits

\* The outcome of the run in progress.
SetOutcome(o) == subOutcome' = [subOutcome EXCEPT ![Len(subOutcome)] = o]

subFrame == <<clock, disk, invocations, runsAllowed, pc, sessionDir, manifest,
              cancelled, cancelAt, result, pipeErr, pipeVars, saveVars,
              rankVars, itemVars, muVars>>

\* Run, lines 70-110: the manifest is loaded or created with the caller's
\* subreddits, and saved.
SubRunStart ==
    /\ subPc = "idle"
    /\ subRuns < MaxSubRuns
    /\ subRuns' = subRuns + 1
    /\ subCalls' = 0
    /\ subOutcome' = Append(subOutcome, "none")
    /\ subSearch' = <<>>
    /\ \E explicit \in ExplicitLists :
          /\ subExplicit' = explicit
          /\ subConfig' = explicit
          /\ subManifest' =
                IF subDisk.exists THEN subDisk
                ELSE [exists |-> TRUE, subreddits |-> explicit, discovered |-> FALSE]
    /\ \/ /\ subDisk' = subManifest'
          /\ subErr' = "none"
          /\ subPc' = "phase0"
       \/ /\ subErr' = "saving manifest"
          /\ subPc' = "idle"
          /\ UNCHANGED subDisk
    /\ UNCHANGED <<cfg, subFrame>>

\* Run, lines 114-143.
SubPhase0 ==
    /\ subPc = "phase0"
    /\ IF Len(subConfig) # 0
       THEN /\ subPc' = "pipeline"
            /\ UNCHANGED <<subConfig, subManifest, subDisk, subCalls, subOutcome,
                           subErr>>
       ELSE IF Reusable(subManifest)
       THEN /\ subConfig' = subManifest.subreddits
            /\ subPc' = "pipeline"
            /\ UNCHANGED <<subManifest, subDisk, subCalls, subOutcome, subErr>>
       ELSE IF ~cfg.discoverer
       THEN /\ subPc' = "pipeline"
            /\ UNCHANGED <<subConfig, subManifest, subDisk, subCalls, subOutcome,
                           subErr>>
       ELSE /\ subCalls' = subCalls + 1
            /\ \E outcome \in {"error", "empty", "found"} :
               \E found \in IF outcome = "found" THEN DiscoveredLists ELSE {<<>>} :
                  /\ SetOutcome(outcome)
                  /\ subManifest' = AfterDiscovery(subManifest, outcome, found)
                  /\ subConfig' = IF outcome = "found" THEN found ELSE subConfig
                  /\ IF outcome = "found"
                     THEN \/ /\ subDisk' = subManifest'
                             /\ subPc' = "pipeline"
                             /\ UNCHANGED subErr
                          \/ /\ subErr' = "saving manifest"
                             /\ subPc' = "idle"
                             /\ UNCHANGED subDisk
                     ELSE /\ subPc' = "pipeline"
                          /\ UNCHANGED <<subDisk, subErr>>
    /\ UNCHANGED <<cfg, subExplicit, subSearch, subRuns, subFrame>>

\* Run, lines 145-185 as far as the subreddits go: the pipeline searches,
\* and Run saves the manifest and returns, or returns the pipeline's error.
SubPipeline ==
    /\ subPc = "pipeline"
    /\ subSearch' = SearchTargets(subConfig)
    /\ \/ /\ subDisk' = subManifest
          /\ subErr' = "nil"
       \/ /\ subErr' = "discovery"
          /\ UNCHANGED subDisk
    /\ subPc' = "idle"
    /\ UNCHANGED <<cfg, subConfig, subExplicit, subManifest, subCalls, subOutcome,
                   subRuns, subFrame>>

InitSub ==
    /\ cfg \in [Limit : {1}, Workers : {1}, evaluator : {TRUE}, ranker : {TRUE},
                discoverer : BOOLEAN]
    /\ runsAllowed = MaxRuns
    /\ clock = 0
    /\ disk = [dir |-> <<>>, file |-> NoManifest]
    /\ invocations = 0
    /\ pc = "idle"
    /\ result = NoResult
    /\ ProcessReset
    /\ SaveReset
    /\ MuReset
    /\ RankReset
    /\ ItemReset
    /\ subPc = "idle"
    /\ subConfig = <<>>
    /\ subExplicit = <<>>
    /\ subManifest = NoSubManifest
    /\ subDisk = NoSubManifest
    /\ subCalls = 0
    /\ subOutcome = <<>>
    /\ subSearch = <<>>
    /\ subErr = "none"
    /\ subRuns = 0

NextSub ==
    \/ SubRunStart
    \/ SubPhase0
    \/ SubPipeline

SpecSub == InitSub /\ [][NextSub]_vars

\* The outcome of the discoverer in the current run.
ThisOutcome == subOutcome[Len(subOutcome)]

\* C28: the subreddit discoverer is not invoked when the caller supplied
\* subreddits or when the loaded manifest has discovered_subreddits = true;
\* once a run has stored a discovered list, no later run of the session
\* invokes the discoverer and the stored list is the one used.
C28_DiscoveryOnlyWhenNeeded ==
    /\ [](subCalls <= 1)
    /\ [](subCalls > 0 => Len(subExplicit) = 0)
    /\ []((subPc = "pipeline" /\ subDisk.discovered /\ Len(subExplicit) = 0) =>
            /\ Len(subConfig) > 0
            /\ subConfig = subDisk.subreddits)
    /\ [][/\ subCalls' > subCalls =>
                /\ Len(subExplicit) = 0
                /\ ~subManifest.discovered
                /\ ~subDisk.discovered
          /\ subDisk.discovered =>
                /\ subDisk' = subDisk
                /\ subCalls' <= subCalls]_vars

\* A resumed run without explicit subreddits reached the pipeline with the
\* list an earlier run discovered and stored, and made no discoverer call.
C28_Witness ==
    /\ subRuns >= 2
    /\ subPc = "pipeline"
    /\ Len(subExplicit) = 0
    /\ subCalls = 0
    /\ ThisOutcome = "none"
    /\ subOutcome[1] = "found"
    /\ subDisk.discovered
    /\ subConfig = subDisk.subreddits

\* C29: when the subreddit discoverer returns an error Run does not fail: it
\* goes on to the pipeline with no subreddits, the search is over the
\* pseudo-community all, the manifest's discovered_subreddits stays false,
\* and a later run without explicit subreddits calls the discoverer again.
C29_DiscoveryFailureNotFatal ==
    /\ []((subOutcome # <<>> /\ ThisOutcome = "error") =>
            /\ subErr # "saving manifest"
            /\ subPc = "idle" => subErr \in {"nil", "discovery"}
            /\ Len(subConfig) = 0
            /\ ~subManifest.discovered
            /\ ~subDisk.discovered
            /\ Len(subSearch) > 0 => subSearch = <<"all">>)
    /\ [][/\ (subPc = "phase0" /\ subOutcome' # subOutcome
                 /\ subOutcome'[Len(subOutcome')] = "error") =>
                /\ subPc' = "pipeline"
                /\ subErr' = subErr
                /\ subDisk' = subDisk
          /\ (subPc = "phase0" /\ subPc' # "phase0" /\ Len(subExplicit) = 0
                 /\ cfg.discoverer /\ ~subDisk.discovered) =>
                subCalls' = subCalls + 1]_vars

\* The discoverer failed in the first run, which searched all and returned
\* nil; the second run called the discoverer again and it found a list.
C29_Witness ==
    /\ subOutcome = <<"error", "found">>
    /\ subRuns = 2
    /\ subCalls = 1
    /\ subPc = "pipeline"
    /\ subDisk.discovered

(* ------------------------ the run log at return ------------------------ *)

TerminalStatuses == {"completed", "interrupted", "failed"}

\* C31: whenever Run returns - with success, with the cancellation, or with
\* an error after the run log was started (a discovery failure in round 0) -
\* the last RunLog of the saved manifest has a terminal status (completed,
\* interrupted or failed) and is never left as "running".
C31_TerminalRunLog ==
    RunReturned =>
        /\ disk.dir = sessionDir
        /\ disk.file # NoManifest
        /\ LastRun(disk.file[1]) \in TerminalStatuses

(* ------------------- the session package's AddThread ------------------- *)
(* session.AddThread called by a client of the package with any thread, on
   manifests of every shape. *)

\* Largest thread list the calls are followed to.
MaxStoreThreads == 5

\* A client holds a manifest of any shape.
StoreEnter ==
    /\ pc = "idle"
    /\ invocations = 0
    /\ invocations' = 1
    /\ manifest' \in AppendManifests
    /\ pc' = "store"
    /\ UNCHANGED <<cfg, clock, runsAllowed, sessionDir, result, auxVars, disk,
                   cancelled, cancelAt, pipeErr, pipeVars>>

\* The client calls session.AddThread(manifest, thread) with the thread of
\* any post; posts records the argument of the call.
StoreAddThread ==
    /\ pc = "store"
    /\ Len(manifest.threads) < MaxStoreThreads
    /\ \E p \in 1..MaxFoundPost :
          /\ posts' = <<p>>
          /\ manifest' = AddThread(manifest, NewThreadState(p))
    /\ UNCHANGED <<envVars, pc, disk, cancelled, cancelAt, pipeErr, wpc, witem,
                   workCh, chClosed, fed, feedQ, totalFed, done, extractedCnt,
                   processed, round, remaining, roundTarget, waitExit, dirty,
                   saver, pushes, discoveries,
                   startStatus>>

NextStore == StoreEnter \/ StoreAddThread

SpecStore == InitAppend /\ [][NextStore]_vars

\* This step is a call of AddThread (its argument is posts'[1]).
AddThreadCalled == pc = "store" /\ pc' = "store" /\ posts' # <<>>

\* C32: the add-thread primitive appends a thread only when no thread with
\* the same post id is in the manifest; called with a post id already
\* present it refuses and leaves the thread list unchanged.
C32_AddThreadRefusesDuplicates ==
    [][AddThreadCalled =>
          IF FindThread(manifest, posts'[1])
          THEN manifest'.threads = manifest.threads
          ELSE manifest'.threads
                   = Append(manifest.threads, NewThreadState(posts'[1]))]_vars

(* ------------------------- the manifest mutex -------------------------- *)
(* Run and runPipeline followed access by access: every section of code
   that reads or changes the manifest is a site; a task asks for the site's
   lock (if the code takes mu there), holds it, touches the manifest, and
   unlocks.  The order of a task's sites is left open. *)

MuWorkers == {"w1", "w2"}

\* A site: its name and whether the code brackets it with mu.Lock() and
\* mu.Unlock().
Site(name, locked) == [name |-> name, locked |-> locked]

\* Run before runPipeline, lines 105-136: StartRun and SaveManifest, the
\* subreddit fields of Phase 0.  No goroutine exists yet.
RunSitesBefore == {Site("startRun", FALSE), Site("phase0", FALSE)}

\* The driver inside runPipeline: lines 443-445, 460-463, 479-482, 506-527,
\* 534-542, 570-573, 581-583, 589-593.
DriverSites ==
    {Site(n, TRUE) : n \in {"resumeFeed", "haveEnough", "actionable", "addPosts",
                            "newItems", "waitEnough", "roundStatus", "breaker"}}

\* A worker body whose markThreadFailed calls are not bracketed by mu.
WorkerSitesUnlocked ==
    {Site(n, TRUE) : n \in {"earlyStop", "skipped", "collected",
                            "collectedDirect", "entries"}}
    \cup {Site(n, FALSE) : n \in {"evalFailed", "fetchFailed", "marshalFailed",
                                  "writeFailed", "loadFailed", "extractFailed"}}

\* The worker body: lines 310-313, 336-338, 345-347, 354-361, 367-369,
\* 379-381, 386-388, 393-400, 408-410, 418-420, 428-431.
WorkerSites ==
    {Site(n, TRUE) : n \in {"earlyStop", "evalFailed", "skipped", "collected",
                            "fetchFailed", "marshalFailed", "writeFailed",
                            "collectedDirect", "loadFailed", "extractFailed",
                            "entries"}}

\* The periodic saver: lines 282-284 (tick) and 287-289 (after saveCancel).
SaverSites == {Site("tick", TRUE), Site("final", TRUE)}

\* Run after runPipeline, lines 150-151, 160-161, 170-175 (rankEntries,
\* lines 750-807) and 185-186.
RunSitesAfter ==
    {Site("interrupted", FALSE), Site("rankEntries", FALSE), Site("complete", FALSE)}

\* The sites task t can come to from where it is.
SitesAt(t) ==
    CASE t = "driver" /\ task[t].pos = "run" -> RunSitesBefore
      [] t = "driver" /\ task[t].pos = "loop" -> DriverSites
      [] t = "driver" /\ task[t].pos = "after" -> RunSitesAfter
      [] t \in MuWorkers /\ task[t].pos = "work" -> WorkerSites
      [] t = "saver" /\ task[t].pos = "select" ->
            IF task["driver"].pos = "saveWait" THEN SaverSites
            ELSE {Site("tick", TRUE)}
      [] OTHER -> {}

muFrame == <<cfg, clock, disk, invocations, runsAllowed, pc, sessionDir,
             manifest, cancelled, cancelAt, result, pipeErr, pipeVars,
             saveVars, rankVars, itemVars, subVars>>

AtRest(t, pos) == task[t] = Outside(pos)

\* Run is called.
MuRunStart ==
    /\ AtRest("driver", "none")
    /\ task' = [task EXCEPT !["driver"] = Outside("run")]
    /\ UNCHANGED <<mu, muFrame>>

\* runPipeline, lines 261-302: mu is declared, the saver goroutine and the
\* worker pool are started.
MuSpawn ==
    /\ AtRest("driver", "run")
    /\ task' = [t \in Tasks |->
                   CASE t = "driver" -> Outside("loop")
                     [] t = "saver" -> Outside("select")
                     [] OTHER -> Outside("work")]
    /\ UNCHANGED <<mu, muFrame>>

\* A task comes to a site; where the code locks, it calls mu.Lock().
MuRequest(t) ==
    /\ task[t].step = "out"
    /\ \E s \in SitesAt(t) :
          task' = [task EXCEPT ![t].site = s.name, ![t].step =
                      IF s.locked THEN "wait" ELSE "held"]
    /\ UNCHANGED <<mu, muFrame>>

\* mu.Lock() returns: the mutex was free.
MuAcquire(t) ==
    /\ task[t].step = "wait"
    /\ mu = "free"
    /\ mu' = t
    /\ task' = [task EXCEPT ![t].step = "held"]
    /\ UNCHANGED muFrame

\* The task starts to read or change the manifest ...
MuTouch(t) ==
    /\ task[t].step = "held"
    /\ task' = [task EXCEPT ![t].step = "touch"]
    /\ UNCHANGED <<mu, muFrame>>

\* ... and is done with it.
MuTouched(t) ==
    /\ task[t].step = "touch"
    /\ task' = [task EXCEPT ![t].step = "touched"]
    /\ UNCHANGED <<mu, muFrame>>

\* The task leaves the site; where the code locked, it calls mu.Unlock().
\* The saver returns after its final save (line 290).
MuRelease(t) ==
    /\ task[t].step = "touched"
    /\ mu' = IF mu = t THEN "free" ELSE mu
    /\ task' = [task EXCEPT ![t] =
                   Outside(IF task[t].site = "final" THEN "exited" ELSE task[t].pos)]
    /\ UNCHANGED muFrame

\* A worker returns: the range loop ended, the context is cancelled, or the
\* goal is met (lines 304-316).
MuWorkerReturn(w) ==
    /\ AtRest(w, "work")
    /\ task' = [task EXCEPT ![w] = Outside("exited")]
    /\ UNCHANGED <<mu, muFrame>>

\* Lines 495-496 and 601-602: close(workCh); wg.Wait().
MuClose ==
    /\ AtRest("driver", "loop")
    /\ task' = [task EXCEPT !["driver"] = Outside("join")]
    /\ UNCHANGED <<mu, muFrame>>

\* wg.Wait() returns when every worker has returned; saveCancel() follows
\* (lines 497 and 605).
MuJoined ==
    /\ AtRest("driver", "join")
    /\ \A w \in MuWorkers : task[w].pos = "exited"
    /\ task' = [task EXCEPT !["driver"] = Outside("saveWait")]
    /\ UNCHANGED <<mu, muFrame>>

\* <-saveDone (lines 498 and 606): the saver goroutine has returned, and
\* runPipeline returns to Run.
MuSaveDone ==
    /\ AtRest("driver", "saveWait")
    /\ task["saver"].pos = "exited"
    /\ task' = [task EXCEPT !["driver"] = Outside("after")]
    /\ UNCHANGED <<mu, muFrame>>

\* Run returns.
MuReturn ==
    /\ AtRest("driver", "after")
    /\ task' = [task EXCEPT !["driver"] = Outside("returned")]
    /\ UNCHANGED <<mu, muFrame>>

InitMu ==
    /\ cfg = [Limit |-> 1, Workers |-> 2, evaluator |-> TRUE, ranker |-> TRUE]
    /\ runsAllowed = 1
    /\ clock = 0
    /\ disk = [dir |-> <<>>, file |-> NoManifest]
    /\ invocations = 0
    /\ pc = "idle"
    /\ result = NoResult
    /\ ProcessReset
    /\ SaveReset
    /\ MuReset
    /\ RankReset
    /\ ItemReset
    /\ SubReset

NextMu ==
    \/ MuRunStart
    \/ MuSpawn
    \/ \E t \in Tasks :
          MuRequest(t) \/ MuAcquire(t) \/ MuTouch(t) \/ MuTouched(t) \/ MuRelease(t)
    \/ \E w \in MuWorkers : MuWorkerReturn(w)
    \/ MuClose
    \/ MuJoined
    \/ MuSaveDone
    \/ MuReturn

SpecMu == InitMu /\ [][NextMu]_vars

\* The tasks that are reading or changing the manifest.
Touching == {t \in Tasks : task[t].step = "touch"}

\* A worker or the periodic saver has been started and has not returned.
GoroutinesAlive ==
    \E t \in MuWorkers \cup {"saver"} : task[t].pos \in {"work", "select"}

\* C33: while the worker pool or the periodic saver is alive, every read and
\* every mutation of the manifest by the driver, the workers and the saver
\* is performed while holding the single manifest mutex; no state is
\* reachable in which two tasks access the manifest at the same time.
C33_ManifestUnderMutex ==
    /\ GoroutinesAlive => \A t \in Touching : mu = t
    /\ Cardinality(Touching) <= 1

\* A worker is marking its thread failed under the mutex while the other
\* worker, the driver (adding posts) and the saver are blocked in mu.Lock().
C33_Witness ==
    /\ mu = "w1"
    /\ task["w1"].step = "touch"
    /\ task["w1"].site = "evalFailed"
    /\ task["w2"].step = "wait"
    /\ task["driver"] = [pos |-> "loop", site |-> "addPosts", step |-> "wait"]
    /\ task["saver"].step = "wait"

(* ------------------------------ the ranker ----------------------------- *)

\* The ranker is running (o.ranker.RankEntries was called and has not
\* returned).
RankerRunning == pc = "ranking"

\* In this step the ranker returned its outputs and rankEntries wrote them
\* to the manifest and saved it.
RankerReturned == pc = "ranking" /\ pc' = "complete" /\ manifest' # manifest

\* An extracted thread with at least one entry.
ExtractedWithEntries(t) == t.status = "extracted" /\ t.entries > 0

\* C34: the ranker is invoked at most once per run (after its call the run
\* only completes and returns) and only after the work channel is closed,
\* every worker has returned and the periodic saver has stopped; when it
\* returns its outputs, exactly the threads that were extracted with at
\* least one entry become ranked and each of their entries has a
\* rank_score, and every other thread is left as it was.
C34_RankOnceAfterDrain ==
    /\ [](RankerRunning => chClosed /\ AllWorkersExited /\ saver = "done")
    /\ [][/\ (pc' = "ranking" /\ pc # "ranking") => pc = "rankStart"
          /\ (pc' = "rankStart" /\ pc # "rankStart") => pc = "saveWait"
          /\ pc = "ranking" => pc' \in {"ranking", "complete", "idle"}
          /\ pc = "complete" => pc' \in {"complete", "idle"}
          /\ (pc = "rankStart" /\ pc' = "ranking") =>
                \E i \in 1..Len(manifest.threads) :
                    ExtractedWithEntries(manifest.threads[i])
          /\ RankerReturned =>
                /\ Len(manifest'.threads) = Len(manifest.threads)
                /\ \A i \in 1..Len(manifest.threads) :
                      manifest'.threads[i] =
                          IF ExtractedWithEntries(manifest.threads[i])
                          THEN [manifest.threads[i] EXCEPT
                                   !.status = "ranked",
                                   !.scored = manifest.threads[i].entries]
                          ELSE manifest.threads[i]]_vars

\* After the ranker's return one thread is ranked with a score on its entry
\* next to a thread that was extracted without entries and stays extracted.
C34_Witness ==
    /\ pc = "complete"
    /\ chClosed
    /\ \E i, j \in 1..Len(manifest.threads) :
          /\ manifest.threads[i].status = "ranked"
          /\ manifest.threads[i].entries = 1
          /\ manifest.threads[i].scored = 1
          /\ manifest.threads[j].status = "extracted"
          /\ manifest.threads[j].entries = 0

(* ------------------------------ resume feed ---------------------------- *)

\* The work items of the run: still to be sent, in the channel, or held by
\* a worker.
ItemsOfRun ==
    {feedQ[i] : i \in 1..Len(feedQ)}
        \cup {workCh[i] : i \in 1..Len(workCh)}
        \cup {witem[w] : w \in Busy}

\* Worker w receives an item in this step and starts on it.
StartsItem(w) == wpc[w] = "recv" /\ wpc'[w] \in {"eval", "extract"}

\* C35: on resume, a thread whose status is collected at run start is fed
\* with needs_eval = false: the evaluator (or the direct fetch) is never
\* run for it and its worker goes straight to loading the payload and
\* extracting; a thread that is pending at run start is fed with
\* needs_eval = true, in round 0: the feed of round 0 (unless the process is
\* killed there) takes every such thread, and no later round sends one.
C35_ResumeSkipsEvaluation ==
    /\ [](\A it \in ItemsOfRun :
              /\ startStatus[it.id] = "collected" => ~it.needsEval
              /\ startStatus[it.id] = "pending" => it.needsEval)
    /\ [](\A w \in Pool :
              wpc[w] = "eval" => startStatus[witem[w].id] # "collected")
    /\ [][/\ \A w \in Pool :
                (StartsItem(w) /\ startStatus[witem'[w].id] = "collected")
                    => wpc'[w] = "extract"
          /\ \A p \in PostIDs :
                pushes'[p] > pushes[p] =>
                    /\ startStatus[p] = "collected" => pc = "resumeFeed"
                    /\ startStatus[p] = "pending" => (pc = "feedSend" /\ round = 0)
          /\ (pc = "feedCollect" /\ round = 0 /\ pc' \notin {pc, "idle"}) =>
                /\ pc' = "feed"
                /\ \A p \in PostIDs :
                      startStatus[p] = "pending" =>
                          \E i \in 1..Len(feedQ') :
                              feedQ'[i] = [id |-> p, needsEval |-> TRUE]]_vars

\* A resumed run: the worker holds the item of a thread that was collected
\* when the manifest was loaded and is extracting it, while a thread that
\* was pending then lies in the channel with needs_eval = true, sent in
\* round 0.
C35_Witness ==
    /\ invocations = 2
    /\ round = 0
    /\ \E p, q \in PostIDs :
          /\ startStatus[p] = "collected"
          /\ startStatus[q] = "pending"
          /\ wpc[1] = "extract"
          /\ witem[1] = [id |-> p, needsEval |-> FALSE]
          /\ pushes[q] = 1
          /\ \E i \in 1..Len(workCh) : workCh[i] = [id |-> q, needsEval |-> TRUE]

\* ---------------------------------------------------------------------------
\* The penalty stages on long lists (applyDiversityPenalty,
\* applyThreadSaturation)
\* ---------------------------------------------------------------------------

\* Entries of a list whose entries vary in thread, primary value and score.
MaxMixedEntries == 4
\* Entries of the longest list: one thread and one cluster of eight entries
\* reach the ranks where both penalties are capped.
MaxPenaltyEntries == 8
\* Confidence components of the entries: algorithmic scores 45 and 100.
PenaltyConfidences == {50, 300}

PenaltyInputs(threads, raws) ==
    [thread : threads, raw : raws, confidence : PenaltyConfidences,
     completeness : CompletenessScores, upvote : UpvoteScores,
     comment : CommentScores]

\* Short lists over all threads and primary values.
MixedLists ==
    UNION { {in \in [1..n -> PenaltyInputs(1..MaxRankThreads, RawValues)] : ByThread(in)} :
            n \in 1..MaxMixedEntries }

\* The entries of a long list: they come from the first thread and have the
\* primary value "abcd (x)" or none, those without one the lower score.
LongInputs ==
    { e \in PenaltyInputs({1}, {<<>>, <<"a", "b", "c", "d", " ", "(", "x", ")">>}) :
        e.raw = <<>> => e.confidence = 50 }

LongLists ==
    UNION { [1..n -> LongInputs] : n \in (MaxMixedEntries + 1)..MaxPenaltyEntries }

InitPenalty ==
    /\ cfg = [Limit |-> 1, Workers |-> 1, evaluator |-> TRUE, ranker |-> TRUE]
    /\ runsAllowed = MaxRuns
    /\ clock = 0
    /\ disk = [dir |-> <<>>, file |-> NoManifest]
    /\ invocations = 0
    /\ pc = "idle"
    /\ result = NoResult
    /\ ProcessReset
    /\ SaveReset
    /\ MuReset
    /\ rankPc = "score"
    /\ inputs \in MixedLists \cup LongLists
    /\ sortTies \in {"first", "last"}
    /\ outputs = <<>>
    /\ assessments = NoResponse
    /\ ranked = <<>>
    /\ written = [i \in 1..Len(inputs) |-> NoRank]
    /\ runLog = "running"
    /\ ItemReset
    /\ SubReset

\* The three algorithmic stages of RankEntries.
NextPenalty ==
    \/ ScoreStep
    \/ DiversityStep
    \/ SaturationStep

SpecPenalty == InitPenalty /\ [][NextPenalty]_vars

(* --------------------------------- C36 --------------------------------- *)

\* The diversity stage runs in this step.
DiversityRuns == rankPc = "diversity" /\ rankPc' = "saturation"

\* The penalty of the entry at 0-based position k of a sorted cluster.
DuplicatePenalty(k) == IF k = 0 THEN 0 ELSE Max(-50, -15 - 10 * (k - 1))

\* The positions entry i can have when the entries S are sorted by
\* descending key: after the entries with a greater key, before those with
\* a smaller one.
PositionsOf(S, key, i) ==
    { k \in 0..(Cardinality(S) - 1) :
        /\ Cardinality({j \in S : key[j] > key[i]}) <= k
        /\ k <= Cardinality(S) - 1 - Cardinality({j \in S : key[j] < key[i]}) }

SaturationRuns == rankPc = "saturation" /\ rankPc' = "assess"

\* The additional penalty of the entry at 0-based rank r of a sorted thread.
ThreadPenalty(r) == IF r = 0 THEN 0 ELSE Max(-30, -5 * r)

\* The input positions of the entries of thread t.
EntriesOfThread(t) == {i \in 1..Len(inputs) : inputs[i].thread = t}

\* C37: in the saturation stage the entries of every source thread are
\* ranked by descending current final score; the entry at 0-based rank
\* r >= 1 gets max(-30, -5*r) added to the penalty it has and its final
\* score becomes max(0, algo + total penalty); the best entry of a thread
\* and the entries of single-entry threads are unchanged, and so are the
\* flags, reasons and algorithmic scores of all entries.
C37_ThreadSaturation ==
    [][SaturationRuns =>
        LET final == [i \in 1..Len(outputs) |-> outputs[i].final]
            added(i) == outputs'[i].penalty - outputs[i].penalty
        IN  \A t \in 1..MaxRankThreads :
              LET g == EntriesOfThread(t)
              IN  /\ \A i \in g :
                        \E r \in PositionsOf(g, final, i) :
                           outputs'[i] =
                              [outputs[i] EXCEPT
                                 !.penalty = @ + ThreadPenalty(r),
                                 !.final = Max(0, outputs[i].algo + outputs[i].penalty
                                                    + ThreadPenalty(r))]
                  /\ \A r \in 0..(Cardinality(g) - 1) :
                        Cardinality({i \in g : added(i) = ThreadPenalty(r)})
                        = Cardinality({l \in 0..(Cardinality(g) - 1) :
                             ThreadPenalty(l) = ThreadPenalty(r)})
                  /\ Cardinality(g) = 1 => \A i \in g : outputs'[i] = outputs[i]
    ]_vars

\* The saturation stage ran on a thread of eight entries: the second best,
\* a duplicate, has -15 and -5; two entries without a primary value, those
\* of ranks 6 and 7, have -30 and the final score 45 - 30.
C37_Witness ==
    /\ rankPc = "assess"
    /\ Cardinality(EntriesOfThread(1)) = 8
    /\ \E i \in 1..Len(outputs) :
          outputs[i].flags = <<"duplicate">> /\ outputs[i].penalty = -20
    /\ Cardinality({i \in 1..Len(outputs) :
                       inputs[i].raw = <<>> /\ outputs[i].penalty = -30}) = 2
    /\ \E i \in 1..Len(outputs) :
          /\ outputs[i].penalty = -30
          /\ outputs[i].algo = 45
          /\ outputs[i].final = 15

(* --------------------------------- C40 --------------------------------- *)

\* The entry at input position i has a primary value that normalizes to "".
EmptyNormalized(i) ==
    inputs[i].raw # <<>> /\ normalizePrimary(inputs[i].raw) = <<>>

\* The entry at input position i has a primary value that normalizes to a
\* non-empty string.
Named(i) == normalizePrimary(inputs[i].raw) # <<>>

\* The named entries reachable from the entries S by chains of pairwise
\* similar named entries.
RECURSIVE NamedChain(_)
NamedChain(S) ==
    LET T == S \cup {j \in 1..Len(inputs) :
                       /\ Named(j)
                       /\ \E i \in S : areSimilar(normalizePrimary(inputs[i].raw),
                                                  normalizePrimary(inputs[j].raw))}
    IN  IF T = S THEN S ELSE NamedChain(T)

\* C40: an entry whose primary value is non-empty and normalizes to "" is
\* not treated as similar to the entries whose normalized primary value is
\* non-empty: no cluster holds both kinds, two such named entries share a
\* cluster only if a chain of similar named entries links them, and after
\* the diversity stage no entry of one kind carries a duplicate penalty whose
\* reason names an entry of the other kind.
C40_EmptyNormalizedApart ==
    AfterDiversity =>
        /\ \A c \in Clusters : \A i, j \in c : EmptyNormalized(i) => ~Named(j)
        /\ \A c \in Clusters : \A i, j \in c :
              (Named(i) /\ Named(j)) => j \in NamedChain({i})
        /\ \A i, w \in 1..Len(inputs) :
              (/\ EmptyNormalized(i) # EmptyNormalized(w)
               /\ inputs[w].raw # <<>> /\ inputs[i].raw # <<>>)
              => ~(/\ outputs[i].penalty < 0
                   /\ outputs[i].reason =
                         <<"Similar to higher-scored entry", inputs[w].raw>>)

(* --------------------------------- C38 --------------------------------- *)

\* The threads of a manifest that count towards the goal.
ExtractedOrRanked(m) == CountByStatus(m, "extracted") + CountByStatus(m, "ranked")

\* Their number when Run loaded the manifest.
ExtractedAtStart ==
    Cardinality({p \in PostIDs : startStatus[p] \in {"extracted", "ranked"}})

\* C38: during a run with W workers and the target L the number of threads
\* in status extracted or ranked never exceeds the greater of its value at
\* the start of the run and L - 1 + W: a worker starts an item only while
\* fewer than L threads count, so at most W items are in flight when the
\* L-th is extracted.
C38_OvershootBounded ==
    ExtractedOrRanked(manifest)
        <= Max(ExtractedAtStart, cfg.Limit - 1 + ClampWorkers(cfg.Workers))

\* Two workers and the target 1: both were past the check when the first
\* finished, two threads are extracted, and a third item was left unstarted
\* by a worker that exited.
C38_Witness ==
    /\ cfg.Limit = 1
    /\ ClampWorkers(cfg.Workers) = 2
    /\ ExtractedAtStart = 0
    /\ ExtractedOrRanked(manifest) = 2
    /\ CountByStatus(manifest, "pending") >= 1
    /\ \A w \in Pool : wpc[w] = "exited"

(* --------------------------------- C39 --------------------------------- *)

\* Worker w takes a step of the body of its loop on the item it holds.
WorkerActs(w) ==
    /\ wpc[w] \in {"eval", "extract"}
    /\ wpc'[w] \in {"recv", "extract"}
    /\ wpc'[w] # wpc[w]

====
